---------------------------- MODULE Spec2Model ----------------------------
(***************************************************************************)
(* CAN bit-level codec and viewers of the Logic-Analyzer repository.       *)
(*                                                                         *)
(*   decode side  (src/CodeRawFile.py): CodeEAKDecoder.feed / reset, the   *)
(*                                      _destuff helper and the field      *)
(*                                      extraction of _redraw_plot, and    *)
(*                                      the LogicAnalyzerGUI application   *)
(*   encode side  (src/can_demo1.py):   bitstuff, the raw->stuffed map,    *)
(*                                      build_can_fields, plot_wave and    *)
(*                                      the Plot button                    *)
(*   log viewer   (src/CAN_Real.py):    the worker threads, the buttons    *)
(*                                      and the plot updater               *)
(*                                                                         *)
(* The specifications share the variables:                                 *)
(*   Spec       a decoder session: feed(payload) and reset() calls         *)
(*   SpecChunk  one byte string fed to a decoder in two chunks             *)
(*   SpecStuff  bitstuff / _destuff applied to every bounded raw sequence  *)
(*   SpecBits   a session of single edges, with the iterations of the bit  *)
(*              loop of the last record kept in bitlog                     *)
(*   SpecTable  the duty-cycle decision table on every bounded input       *)
(*   SpecFields _destuff and the field extraction on decoded bit streams   *)
(*   SpecEncode the Plot button on an entry text, then _destuff and the    *)
(*              field extraction applied to the plotted frame              *)
(*   SpecReveal a session of edges, with what _redraw_plot shows after     *)
(*              each of them                                               *)
(*   SpecGui    LogicAnalyzerGUI: buttons, reader threads and callbacks    *)
(*   SpecLog    the log viewer: buttons, worker threads and plot updater   *)
(*                                                                         *)
(* Times are integers.  The decoder multiplies the bit index by a bit      *)
(* duration of 20 or 20.1 ticks; the model keeps every duration and duty   *)
(* share in tenths of a tick (200, 201, threshold 100) so that the         *)
(* arithmetic stays exact.  The Python code computes k * 20.1 in binary    *)
(* floating point, which can differ from the exact product in the last     *)
(* place; the duration 201 is used only beyond bit index 40.               *)
(***************************************************************************)
EXTENDS Integers, Sequences, FiniteSets, TLC

VARIABLES
    decoder,      \* the CodeEAKDecoder object (its seven fields)
    payload,      \* argument of the last feed() call
    scan,         \* the loop iterations of the last feed() call
    bytestr,       \* SpecChunk: the byte string fed in two chunks
    split,        \* SpecChunk: the split point k
    base,         \* SpecChunk: the decoder state before the first chunk
    raw,          \* bitstuff: the raw bit sequence (argument bits)
    until_raw,    \* bitstuff: the protected length (argument until_raw)
    stuffed,      \* bitstuff: returned out
    stuff_pos,    \* bitstuff: returned pos
    clean,        \* _destuff(stuffed)
    phase,        \* position of the stuffing pipeline
    edges,        \* SpecBits: the edges still to be fed
    bitlog,       \* SpecBits: decoder at the top of each bit-loop iteration
    duty,         \* SpecTable: the duty split current_bit_state_pct
    history,      \* SpecTable: the decoded bits bit_data
    decided,      \* SpecTable: the bit the table pushes (-1: none yet)
    wire,         \* SpecFields: decoder.bits as _redraw_plot reads it
    hex_map,      \* the hex_map of the field extraction
    entry,        \* SpecEncode: text of the entry widget
    canvas,       \* SpecEncode: the figure on display
    dialog,       \* SpecEncode: the message box shown by the last Plot
    reveal,       \* SpecReveal: what _redraw_plot worked out after each feed
    mode_var,     \* SpecGui: the Mode radio buttons
    port_var,     \* SpecGui: the port shown in the combobox ("": none found)
    import_btn,   \* SpecGui: state of the Import button
    start_btn,    \* SpecGui: state of the Start button
    stop_btn,     \* SpecGui: state of the Stop button
    stop_event,   \* SpecGui: threading.Event shared with the reader threads
    queue,        \* SpecGui: chunks put by the readers, not yet drained
    threads,      \* SpecGui: number of live _serial_reader threads at each position
    polls,        \* SpecGui: pending after() callbacks of _update_from_queue
    plays,        \* SpecGui: pending after() callbacks of _update_from_file
    file_bytes,   \* SpecGui: the imported file
    file_offset,  \* SpecGui: playback position in file_bytes
    session,      \* SpecGui: mode of the run begun by the last Start, "none" once stopped
    cleared,      \* SpecGui: Reset was pressed and Start has not been pressed since
    serial_only,  \* SpecGui: the mode has been Serial all along
    reads,        \* SpecGui, SpecLog: chunks or lines the serial port has delivered so far
    presses,      \* SpecGui, SpecLog: clicks on the buttons and selectors so far
    q,            \* SpecLog: lines put by the worker threads, not yet drained
    stop_e,       \* SpecLog: threading.Event that stops the workers
    trig_e,       \* SpecLog: threading.Event that arms the serial worker
    worker,       \* SpecLog: the thread self.worker refers to
    orphans,      \* SpecLog: live threads self.worker no longer refers to
    reader,       \* SpecLog: self.reader, the function Start runs in a thread
    cbo_port,     \* SpecLog: the port shown in the combobox ("": none found)
    var_trigger,  \* SpecLog: the ARM Trigger checkbox
    btn_start,    \* SpecLog: state of the Start button
    btn_stop,     \* SpecLog: state of the Stop button
    xs,           \* SpecLog: seconds since t0 of the plotted samples
    ys,           \* SpecLog: levels of the plotted samples
    t0,           \* SpecLog: time of the first sample (-1: None)
    touched,      \* SpecLog: Stop or Clear was pressed after the last Open Log
    marks         \* what the display loop of _redraw_plot worked out

\* the variables of the bit-loop, table, field and encoder specifications
bitVars == <<edges, bitlog, duty, history, decided>>
plotVars == <<wire, hex_map, entry, canvas, dialog>>

\* the variables of the application specifications
guiVars == <<mode_var, port_var, import_btn, start_btn, stop_btn, stop_event, queue, threads, polls,
             plays, file_bytes, file_offset, session, cleared, serial_only, reads, presses>>
logVars == <<q, stop_e, trig_e, worker, orphans, reader, cbo_port, var_trigger, btn_start, btn_stop,
             xs, ys, t0, touched>>
appVars == <<reveal, guiVars, logVars, marks>>

vars == <<decoder, payload, scan, bytestr, split, base, raw, until_raw, stuffed, stuff_pos, clean, phase,
          bitVars, plotVars, appVars>>

(***************************************************************************)
(* Bounds of the model                                                     *)
(***************************************************************************)
MaxBits == 11      \* longest raw bit sequence handed to bitstuff
MaxTick == 7       \* timestamps are 0, 5, ..., 5 * MaxTick
MaxStored == 5     \* longest state_data / timestamp_data list explored
MaxWarm == 1       \* SpecChunk: longest state_data before the chunks
MaxOff == 3        \* SpecBits: edges at base, base + 15, ..., base + 15 * MaxOff
MaxEdges == 2      \* SpecBits: longest list of edges fed in a session
MaxDev == 2        \* SpecTable: duty shares within MaxDev tenths of the threshold
MaxHist == 6       \* SpecTable: longest decoded history
MaxWire == 100     \* SpecFields: longest decoded bit stream
MaxDigits == 18    \* SpecEncode: most hex digits after the ID digits
MaxShown == 3      \* SpecReveal: longest list of edges fed in a session
MaxThreads == 2    \* SpecGui, SpecLog: most reader threads alive at once
MaxPending == 2    \* SpecGui: most pending callbacks of one kind
MaxReads == 2      \* SpecGui, SpecLog: chunks or lines the serial port delivers
MaxPresses == 5    \* SpecGui, SpecLog: clicks on the buttons and the Mode selector
FileEdges == 16    \* SpecGui: records in an imported file

Bit == {0, 1}

Min(a, b) == IF a <= b THEN a ELSE b

(***************************************************************************)
(* Encode side: bitstuff                                                   *)
(***************************************************************************)

\* Python lists are 0-based: At(s, i) is s[i].
At(s, i) == s[i + 1]

\* can_demo1.py 54: out, pos, cnt, last = [bits[0]], [], 1, bits[0]; raw = 1
bitstuff_start(bits) ==
    [out |-> <<At(bits, 0)>>, pos |-> <<>>, cnt |-> 1, last |-> At(bits, 0), r |-> 1]

\* Variant of the body of the while loop of bitstuff with a stuff threshold
\* of six instead of five.
bitstuff_step_late(bits, until, st) ==
    LET b == At(bits, st.r) IN
    IF st.r < until /\ b = st.last /\ st.cnt = 6
    THEN [out |-> Append(st.out, 1 - st.last), pos |-> Append(st.pos, Len(st.out)),
          cnt |-> 1, last |-> 1 - st.last, r |-> st.r]
    ELSE [out |-> Append(st.out, b), pos |-> st.pos,
          cnt |-> IF b = st.last THEN st.cnt + 1 ELSE 1, last |-> b, r |-> st.r + 1]

\* Variant of the body that ignores the protected length.
bitstuff_step_unbounded(bits, until, st) ==
    LET b == At(bits, st.r) IN
    IF b = st.last /\ st.cnt = 5
    THEN [out |-> Append(st.out, 1 - st.last), pos |-> Append(st.pos, Len(st.out)),
          cnt |-> 1, last |-> 1 - st.last, r |-> st.r]
    ELSE [out |-> Append(st.out, b), pos |-> st.pos,
          cnt |-> IF b = st.last THEN st.cnt + 1 ELSE 1, last |-> b, r |-> st.r + 1]

\* The while loop over the late body.
RECURSIVE bitstuff_loop_late(_, _, _)
bitstuff_loop_late(bits, until, st) ==
    IF st.r < Len(bits) THEN bitstuff_loop_late(bits, until, bitstuff_step_late(bits, until, st)) ELSE st

\* The while loop over the unbounded body.
RECURSIVE bitstuff_loop_unbounded(_, _, _)
bitstuff_loop_unbounded(bits, until, st) ==
    IF st.r < Len(bits) THEN bitstuff_loop_unbounded(bits, until, bitstuff_step_unbounded(bits, until, st)) ELSE st

\* bitstuff with the late threshold.
bitstuff_late(bits, until) ==
    LET st == bitstuff_loop_late(bits, until, bitstuff_start(bits))
    IN  [out |-> st.out, pos |-> st.pos]

\* bitstuff that stuffs past the protected length.
bitstuff_unbounded(bits, until) ==
    LET st == bitstuff_loop_unbounded(bits, until, bitstuff_start(bits))
    IN  [out |-> st.out, pos |-> st.pos]

\* can_demo1.py 56-59: one pass of the body of the while loop; st is the
\* loop's state (out, pos, cnt, last, and raw as r)
bitstuff_step(bits, until, st) ==
    LET b == At(bits, st.r) IN
    IF st.r < until /\ b = st.last /\ st.cnt = 5
    THEN \* out.append(1-last); pos.append(len(out)-1); cnt, last = 1, 1-last; continue
         [out |-> Append(st.out, 1 - st.last), pos |-> Append(st.pos, Len(st.out)),
          cnt |-> 1, last |-> 1 - st.last, r |-> st.r]
    ELSE \* out.append(b); cnt = cnt+1 if b==last else 1; last=b; raw += 1
         [out |-> Append(st.out, b), pos |-> st.pos,
          cnt |-> IF b = st.last THEN st.cnt + 1 ELSE 1, last |-> b, r |-> st.r + 1]

\* can_demo1.py 55: while raw < len(bits): ...
RECURSIVE bitstuff_loop(_, _, _)
bitstuff_loop(bits, until, st) ==
    IF st.r < Len(bits) THEN bitstuff_loop(bits, until, bitstuff_step(bits, until, st)) ELSE st

\* can_demo1.py 53-60.  bits is non-empty (bits[0] is read first).
bitstuff(bits, until) ==
    LET st == bitstuff_loop(bits, until, bitstuff_start(bits))
    IN  [out |-> st.out, pos |-> st.pos]

\* The set of the recorded stuff positions ("st_i in stuff_pos").
PosSet(pos) == {pos[k] : k \in 1..Len(pos)}

\* can_demo1.py 71: while st_i in stuff_pos: st_i += 1
RECURSIVE skip_stuff(_, _)
skip_stuff(pos, st_i) ==
    IF st_i \in PosSet(pos) THEN skip_stuff(pos, st_i + 1) ELSE st_i

\* Variant of r2s that counts on without skipping the stuff positions.
r2s_noskip(bits, pos) == [k \in 1..Len(bits) |-> k - 1]

\* can_demo1.py 69-72: the raw-index -> stuffed-index map, as a sequence
\* (entry rw_i + 1 holds r2s[rw_i]).
RECURSIVE r2s_loop(_, _, _, _)
r2s_loop(n, pos, m, st_i) ==
    IF Len(m) < n
    THEN LET s == skip_stuff(pos, st_i) IN r2s_loop(n, pos, Append(m, s), s + 1)
    ELSE m

r2s(bits, pos) == r2s_loop(Len(bits), pos, <<>>, 0)

(***************************************************************************)
(* Decode side: _destuff                                                   *)
(***************************************************************************)

\* Variant of destuff_step that steps over the bit after a run of four.
destuff_step_four(stream, st) ==
    LET b    == At(stream, st.i)
        run1 == IF b = st.last THEN st.run + 1 ELSE 1
    IN  IF run1 = 4
        THEN [cl |-> Append(st.cl, b), run |-> 0, last |-> b, i |-> st.i + 2,
              over |-> Append(st.over, st.i + 1)]
        ELSE [cl |-> Append(st.cl, b), run |-> run1, last |-> b, i |-> st.i + 1,
              over |-> st.over]

\* CodeRawFile.py 441-446: one pass of the body of the while loop; st is the
\* loop's state (clean as cl, run, last, i).  over lists the indices the
\* extra "i += 1" of line 445 stepped over.
destuff_step(stream, st) ==
    LET b    == At(stream, st.i)
        run1 == IF b = st.last THEN st.run + 1 ELSE 1
    IN  IF run1 = 5
        THEN [cl |-> Append(st.cl, b), run |-> 0, last |-> b, i |-> st.i + 2,
              over |-> Append(st.over, st.i + 1)]
        ELSE [cl |-> Append(st.cl, b), run |-> run1, last |-> b, i |-> st.i + 1,
              over |-> st.over]

\* CodeRawFile.py 440: while i < len(stream): ...
RECURSIVE destuff_loop(_, _)
destuff_loop(stream, st) ==
    IF st.i < Len(stream) THEN destuff_loop(stream, destuff_step(stream, st)) ELSE st

\* CodeRawFile.py 437-438: clean, run, last = [], 0, None; i = 0
destuff_start == [cl |-> <<>>, run |-> 0, last |-> -1, i |-> 0, over |-> <<>>]

\* the indices of the bits of stream that _destuff stepped over
destuff_dropped(stream) ==
    LET over == destuff_loop(stream, destuff_start).over
    IN  {over[k] : k \in 1..Len(over)} \cap (0..(Len(stream) - 1))

\* Variant of _destuff that removes no bit.
destuff_keep(stream) == stream

\* CodeRawFile.py 435-448; last = None is modelled as -1.
destuff(stream) == destuff_loop(stream, destuff_start).cl

(***************************************************************************)
(* Decode side: CodeEAKDecoder                                             *)
(***************************************************************************)
BIT_T == 20                \* nominal bit duration in ticks
DRIFT_T == 201             \* the 20.1-tick duration, in tenths of a tick
HALF == 100                \* the duty threshold of 10 ticks, in tenths

ZeroPct == [k \in Bit |-> 0]

\* CodeRawFile.py 74-81: the state reset() leaves (also the constructor's)
reset ==
    [state_data            |-> <<>>,
     timestamp_data        |-> <<>>,
     total_time            |-> 0,
     current_bit_state_pct |-> ZeroPct,
     current_bit_index     |-> 0,
     bit_data              |-> <<>>,
     bit_duration          |-> BIT_T * 10]

Last(s) == s[Len(s)]

\* sum(self.bit_data[-5:])
RECURSIVE SumSeq(_)
SumSeq(s) == IF s = <<>> THEN 0 ELSE s[1] + SumSeq(Tail(s))

LastFive(s) == IF Len(s) <= 5 THEN s ELSE SubSeq(s, Len(s) - 4, Len(s))

\* Variant of decide_bit that tests the high tie before the low tie.
decide_bit_high_first(pct, bit_data) ==
    IF pct[0] > HALF THEN 0
    ELSE IF pct[1] = HALF
         THEN IF Len(bit_data) > 4 /\ SumSeq(LastFive(bit_data)) = 5 THEN 0 ELSE 1
    ELSE IF pct[0] = HALF
         THEN IF Len(bit_data) > 4 /\ SumSeq(LastFive(bit_data)) = 0 THEN 1 ELSE 0
    ELSE 1

\* CodeRawFile.py 128-141: the bit pushed for a duty split pct
decide_bit(pct, bit_data) ==
    IF pct[0] > HALF THEN 0
    ELSE IF pct[0] = HALF
         THEN IF Len(bit_data) > 4 /\ SumSeq(LastFive(bit_data)) = 0 THEN 1 ELSE 0
    ELSE IF pct[1] = HALF
         THEN IF Len(bit_data) > 4 /\ SumSeq(LastFive(bit_data)) = 5 THEN 0 ELSE 1
    ELSE 1

\* Variant of bit_step that decides on the duty split as the partial edge
\* left it, without completing the share of the other level.
bit_step_stale(d, state, timestamp) ==
    IF (d.current_bit_index + 1) * d.bit_duration <= timestamp * 10
    THEN LET bit == IF d.current_bit_state_pct # ZeroPct
                    THEN decide_bit(d.current_bit_state_pct, d.bit_data)
                    ELSE 1 - state
         IN  [d EXCEPT !.bit_data = Append(@, bit),
                       !.current_bit_state_pct = ZeroPct,
                       !.current_bit_index = @ + 1]
    ELSE [d EXCEPT !.current_bit_state_pct[1 - state] =
                       timestamp * 10 - d.current_bit_index * d.bit_duration]

\* Variant of bit_step that counts a bit period without an edge in it but
\* pushes no bit for it.
bit_step_silent(d, state, timestamp) ==
    IF (d.current_bit_index + 1) * d.bit_duration <= timestamp * 10
    THEN LET pct == [d.current_bit_state_pct EXCEPT ![1 - state] =
                         (d.current_bit_index + 1) * d.bit_duration
                         - d.total_time * 10]
         IN  [d EXCEPT !.bit_data = IF d.current_bit_state_pct # ZeroPct
                                    THEN Append(@, decide_bit(pct, d.bit_data))
                                    ELSE @,
                       !.current_bit_state_pct = ZeroPct,
                       !.current_bit_index = @ + 1]
    ELSE [d EXCEPT !.current_bit_state_pct[1 - state] =
                       timestamp * 10 - d.current_bit_index * d.bit_duration]

\* CodeRawFile.py 121-150: the body of the bit loop, one iteration
bit_step(d, state, timestamp) ==
    IF (d.current_bit_index + 1) * d.bit_duration <= timestamp * 10
    THEN LET pct == [d.current_bit_state_pct EXCEPT ![1 - state] =
                         (d.current_bit_index + 1) * d.bit_duration
                         - d.total_time * 10]
             bit == IF d.current_bit_state_pct # ZeroPct
                    THEN decide_bit(pct, d.bit_data)
                    ELSE 1 - state
         IN  [d EXCEPT !.bit_data = Append(@, bit),
                       !.current_bit_state_pct = ZeroPct,
                       !.current_bit_index = @ + 1]
    ELSE [d EXCEPT !.current_bit_state_pct[1 - state] =
                       timestamp * 10 - d.current_bit_index * d.bit_duration]

\* CodeRawFile.py 120-150: while current_bit_index * bit_duration <= timestamp,
\* as the list of decoder states at the top of each iteration; the last
\* entry is the state the loop leaves (the else branch ends it by break).
RECURSIVE bit_trace(_, _, _)
bit_trace(tr, state, timestamp) ==
    LET d == Last(tr) IN
    IF d.current_bit_index * d.bit_duration <= timestamp * 10
    THEN IF (d.current_bit_index + 1) * d.bit_duration <= timestamp * 10
         THEN bit_trace(Append(tr, bit_step(d, state, timestamp)), state, timestamp)
         ELSE Append(tr, bit_step(d, state, timestamp))
    ELSE tr

decode_bits(d, state, timestamp) == Last(bit_trace(<<d>>, state, timestamp))

\* CodeRawFile.py 98: the rollback test
rolls_back(d, timestamp) ==
    d.timestamp_data # <<>> /\ timestamp < Last(d.timestamp_data)

\* Variant of after_rollback that never resets.
after_rollback_never(d, timestamp) == d

\* Variant of after_rollback whose reset forgets to clear the decoded bits.
after_rollback_keep_bits(d, timestamp) ==
    IF d.timestamp_data # <<>> /\ timestamp < Last(d.timestamp_data)
    THEN [reset EXCEPT !.bit_data = d.bit_data] ELSE d

\* CodeRawFile.py 97-99: reset on timestamp rollback
after_rollback(d, timestamp) ==
    IF d.timestamp_data # <<>> /\ timestamp < Last(d.timestamp_data)
    THEN reset ELSE d

\* Variant of the duplicate test that needs one stored sample only.
is_duplicate_eager(d, state) ==
    Len(d.state_data) >= 1 /\ state = Last(d.state_data)

\* CodeRawFile.py 102: the duplicate test
is_duplicate(d, state) ==
    Len(d.state_data) > 1 /\ state = Last(d.state_data)

\* Variant of append_edge that switches the bit duration one bit early.
append_edge_early(d, state, timestamp) ==
    [d EXCEPT
       !.state_data = IF @ # <<>> THEN Append(Append(@, Last(@)), state)
                      ELSE <<state>>,
       !.timestamp_data = IF @ # <<>> THEN Append(Append(@, timestamp), timestamp)
                          ELSE <<timestamp>>,
       !.bit_duration = IF d.current_bit_index >= 40 THEN DRIFT_T ELSE @]

\* CodeRawFile.py 106-118: append the edge, choose the bit duration
append_edge(d, state, timestamp) ==
    [d EXCEPT
       !.state_data = IF @ # <<>> THEN Append(Append(@, Last(@)), state)
                      ELSE <<state>>,
       !.timestamp_data = IF @ # <<>> THEN Append(Append(@, timestamp), timestamp)
                          ELSE <<timestamp>>,
       !.bit_duration = IF d.current_bit_index > 40 THEN DRIFT_T ELSE @]

\* CodeRawFile.py 106-152: store the edge, integrate the bits
store_edge(d, state, timestamp) ==
    [decode_bits(append_edge(d, state, timestamp), state, timestamp)
       EXCEPT !.total_time = timestamp]

\* Variant of process_record in which a dropped duplicate still moves
\* total_time to its timestamp.
process_record_touch(d, state, timestamp) ==
    LET d0 == after_rollback(d, timestamp) IN
    IF is_duplicate(d0, state) THEN [d0 EXCEPT !.total_time = timestamp]
    ELSE store_edge(d0, state, timestamp)

\* CodeRawFile.py 94-153: one complete 8-byte record
process_record(d, state, timestamp) ==
    LET d0 == after_rollback(d, timestamp) IN
    IF is_duplicate(d0, state) THEN d0 ELSE store_edge(d0, state, timestamp)

\* CodeRawFile.py 88: payload[i:i+3] in (b"\x11\x00\x01", b"\x11\x01\x01")
is_header(p, i) ==
    /\ i + 3 <= Len(p)
    /\ At(p, i) = 17
    /\ At(p, i + 1) \in Bit
    /\ At(p, i + 2) = 1

\* CodeRawFile.py 95: struct.unpack("<I", rec[4:8])[0]
unpack_le(p, i) ==
    At(p, i + 4) + 256 * At(p, i + 5) + 65536 * At(p, i + 6) + 16777216 * At(p, i + 7)

\* Variant of scan_step that skips a whole record length past a header
\* with fewer than 8 bytes left.
scan_step_skip8(d, p, i) ==
    IF is_header(p, i)
    THEN IF Len(p) - i < 8
         THEN [d |-> d, i |-> i + 8]
         ELSE [d |-> process_record(d, At(p, i + 1), unpack_le(p, i)), i |-> i + 8]
    ELSE [d |-> d, i |-> i + 1]

\* Variant of scan_step that skips a whole record length past a byte that
\* starts no header.
scan_step_stride(d, p, i) ==
    IF is_header(p, i)
    THEN IF Len(p) - i < 8
         THEN [d |-> d, i |-> i + 1]
         ELSE [d |-> process_record(d, At(p, i + 1), unpack_le(p, i)), i |-> i + 8]
    ELSE [d |-> d, i |-> i + 8]

\* CodeRawFile.py 86-155: one iteration of the scan loop at position i
scan_step(d, p, i) ==
    IF is_header(p, i)
    THEN IF Len(p) - i < 8
         THEN [d |-> d, i |-> i + 1]
         ELSE [d |-> process_record(d, At(p, i + 1), unpack_le(p, i)), i |-> i + 8]
    ELSE [d |-> d, i |-> i + 1]

\* CodeRawFile.py 85-155: the iterations of feed, as the list of
\* (scan position i, decoder state d) at the top of the loop; the last entry
\* is the state feed returns with.  seen is the timestamp of the latest
\* complete record scanned so far (-1: none), kept for the claims only.
RECURSIVE scan_from(_, _, _)
scan_from(tr, p, i) ==
    IF i < Len(p)
    THEN LET nx == scan_step(Last(tr).d, p, i)
             sn == IF is_header(p, i) /\ Len(p) - i >= 8
                   THEN unpack_le(p, i) ELSE Last(tr).seen
         IN  scan_from(Append(tr, [d |-> nx.d, i |-> nx.i, seen |-> sn]), p, nx.i)
    ELSE tr

feed_trace(d, p, seen) == scan_from(<<[d |-> d, i |-> 0, seen |-> seen]>>, p, 0)

\* CodeRawFile.py 83-155
feed(d, p) == Last(feed_trace(d, p, -1)).d

(***************************************************************************)
(* Inputs: the 8-byte wire record and the payloads fed to the decoder      *)
(***************************************************************************)

\* CodeRawFile.py 87: 0x11, level, 0x01, 0x00, timestamp (4 bytes, little endian)
Record(level, ts) ==
    <<17, level, 1, 0,
      ts % 256, (ts \div 256) % 256, (ts \div 65536) % 256, (ts \div 16777216) % 256>>

Times == {5 * k : k \in 0..MaxTick}

Records == {Record(l, t) : l \in Bit, t \in Times}

\* One record, or the same record twice in a row.
Payloads == Records \cup {r \o r : r \in Records}

(***************************************************************************)
(* Spec: a decoder session                                                 *)
(***************************************************************************)
NoScan == <<[d |-> reset, i |-> 0, seen |-> -1]>>

StuffIdle ==
    /\ raw = <<>> /\ until_raw = 0 /\ stuffed = <<>> /\ stuff_pos = <<>>
    /\ clean = <<>>

ChunkIdle == bytestr = <<>> /\ split = 0 /\ base = reset

NoCanvas == [shown |-> FALSE]

BitsIdle == edges = <<>> /\ bitlog = <<>>

TableIdle == duty = ZeroPct /\ history = <<>> /\ decided = -1

FieldsIdle == wire = <<>> /\ hex_map = <<>>

EncodeIdle == entry = <<>> /\ canvas = NoCanvas /\ dialog = "none"

RevealIdle == reveal = <<>>

\* CodeRawFile.py 220-253, 276-281: the application as constructed
GuiIdle ==
    /\ mode_var = "Serial"
    /\ port_var = ""
    /\ import_btn = "normal"
    /\ start_btn = "normal"
    /\ stop_btn = "disabled"
    /\ stop_event = FALSE
    /\ queue = <<>>
    /\ threads = [pc \in {"open", "test", "read"} |-> 0]
    /\ polls = 0
    /\ plays = 0
    /\ file_bytes = <<>>
    /\ file_offset = 0
    /\ session = "none"
    /\ cleared = FALSE
    /\ serial_only = TRUE
    /\ reads = 0
    /\ presses = 0

\* a thread slot: what it runs, where it is, the lines of its file, how many it has read
NoWorker == [kind |-> "none", pc |-> "done", log |-> <<>>, pos |-> 0]

\* CAN_Real.py 122-143: the visualizer as constructed
LogIdle ==
    /\ q = <<>>
    /\ stop_e = FALSE
    /\ trig_e = FALSE
    /\ worker = NoWorker
    /\ orphans = <<>>
    /\ reader = "read_from_serial"
    /\ cbo_port = ""
    /\ var_trigger = FALSE
    /\ btn_start = "normal"
    /\ btn_stop = "disabled"
    /\ xs = <<>>
    /\ ys = <<>>
    /\ t0 = -1
    /\ touched = FALSE

\* CodeRawFile.py 498-500: last_bit, run_len and actual_idx before the display
\* loop (last_bit -1: None), with the loop position and the positions marked STUFF
display_start == [idx |-> 0, last_bit |-> -1, run_len |-> 0, actual_idx |-> 0, stuff |-> {}]

MarksIdle == marks = display_start

AppIdle == RevealIdle /\ GuiIdle /\ LogIdle /\ MarksIdle

RestIdle == BitsIdle /\ TableIdle /\ FieldsIdle /\ EncodeIdle /\ AppIdle

Init ==
    /\ decoder = reset
    /\ payload = <<>>
    /\ scan = NoScan
    /\ ChunkIdle
    /\ StuffIdle
    /\ RestIdle
    /\ phase = "session"

\* decoder.feed(p)
Feed(p) ==
    LET tr == feed_trace(decoder, p, Last(scan).seen) IN
    /\ Len(Last(tr).d.state_data) <= MaxStored
    /\ decoder' = Last(tr).d
    /\ payload' = p
    /\ scan' = tr
    /\ UNCHANGED <<bytestr, split, base, raw, until_raw, stuffed, stuff_pos, clean, phase, bitVars, plotVars, appVars>>

\* CodeRawFile.py 359: decoder.reset() from the Reset button
Reset ==
    /\ decoder' = reset
    /\ payload' = <<>>
    /\ scan' = NoScan
    /\ UNCHANGED <<bytestr, split, base, raw, until_raw, stuffed, stuff_pos, clean, phase, bitVars, plotVars, appVars>>

Next == (\E p \in Payloads : Feed(p)) \/ Reset

Spec == Init /\ [][Next]_vars

(***************************************************************************)
(* SpecChunk: a byte string fed in one call and in two chunks              *)
(***************************************************************************)
\* A stray byte that starts no header, in front of a record.
Streams == Records \cup {<<0>> \o r : r \in Records}

InitChunk ==
    /\ decoder = reset
    /\ payload = <<>>
    /\ scan = NoScan
    /\ bytestr \in Streams
    /\ split \in 0..Len(bytestr)
    /\ base = reset
    /\ StuffIdle
    /\ RestIdle
    /\ phase = "start"

\* Earlier traffic of the session: decoder.feed(r)
Warm(r) ==
    /\ phase = "start"
    /\ LET tr == feed_trace(decoder, r, Last(scan).seen) IN
         /\ Len(Last(tr).d.state_data) <= MaxWarm
         /\ decoder' = Last(tr).d
         /\ scan' = tr
    /\ payload' = r
    /\ UNCHANGED <<bytestr, split, base, raw, until_raw, stuffed, stuff_pos, clean, phase, bitVars, plotVars, appVars>>

\* decoder.feed(bytestr[:split])
FeedFirst ==
    /\ phase = "start"
    /\ LET c  == SubSeq(bytestr, 1, split)
           tr == feed_trace(decoder, c, Last(scan).seen)
       IN  /\ decoder' = Last(tr).d
           /\ scan' = tr
           /\ payload' = c
    /\ base' = decoder
    /\ phase' = "first"
    /\ UNCHANGED <<bytestr, split, raw, until_raw, stuffed, stuff_pos, clean, bitVars, plotVars, appVars>>

\* decoder.feed(bytestr[split:])
FeedSecond ==
    /\ phase = "first"
    /\ LET c  == SubSeq(bytestr, split + 1, Len(bytestr))
           tr == feed_trace(decoder, c, Last(scan).seen)
       IN  /\ decoder' = Last(tr).d
           /\ scan' = tr
           /\ payload' = c
    /\ phase' = "second"
    /\ UNCHANGED <<bytestr, split, base, raw, until_raw, stuffed, stuff_pos, clean, bitVars, plotVars, appVars>>

NextChunk == (\E r \in Records : Warm(r)) \/ FeedFirst \/ FeedSecond

SpecChunk == InitChunk /\ [][NextChunk]_vars

(***************************************************************************)
(* SpecStuff: bitstuff and _destuff on every bounded input                 *)
(***************************************************************************)
BitSeqs == UNION {[1..n -> Bit] : n \in 1..MaxBits}

InitStuff ==
    /\ decoder = reset /\ payload = <<>> /\ scan = NoScan
    /\ ChunkIdle
    /\ raw \in BitSeqs
    /\ until_raw \in 0..(MaxBits + 1)
    /\ stuffed = <<>> /\ stuff_pos = <<>> /\ clean = <<>>
    /\ RestIdle
    /\ phase = "raw"

\* stuffed, stuff_pos = bitstuff(raw, crc_end)
Stuff ==
    /\ phase = "raw"
    /\ LET res == bitstuff(raw, until_raw) IN
         /\ stuffed' = res.out
         /\ stuff_pos' = res.pos
    /\ phase' = "stuffed"
    /\ UNCHANGED <<decoder, payload, scan, bytestr, split, base, raw, until_raw, clean, bitVars, plotVars, appVars>>

\* nb = _destuff(bits)
Destuff ==
    /\ phase = "stuffed"
    /\ clean' = destuff(stuffed)
    /\ phase' = "clean"
    /\ UNCHANGED <<decoder, payload, scan, bytestr, split, base, raw, until_raw,
                   stuffed, stuff_pos, bitVars, plotVars, appVars>>

NextStuff == Stuff \/ Destuff

SpecStuff == InitStuff /\ [][NextStuff]_vars

(***************************************************************************)
(* Claims on bitstuff / _destuff (SpecStuff)                               *)
(***************************************************************************)
Stuffed == phase \in {"stuffed", "clean"}

\* Number of leading output bits that belong to the protected input: the
\* first min(until_raw, len(raw)) raw bits and the stuff bits among them.
ProtLen ==
    IF until_raw = 0 THEN 0
    ELSE r2s(raw, stuff_pos)[Min(until_raw, Len(raw))] + 1

\* stuffed[s .. s+k-1] (0-based) are k identical bits
RunAt(s, k) == \A j \in 1..(k - 1) : At(stuffed, s + j) = At(stuffed, s)

\* C1: for every non-empty raw sequence and every protected length
\* L >= len(raw), _destuff(bitstuff(raw, L).out) = raw.
C1_RoundTrip ==
    (phase = "clean" /\ until_raw >= Len(raw)) => clean = raw

\* C2: within the protected region every run of five identical bits is
\* followed at once by an inserted complementary bit, whatever the next raw
\* bit is, and the index of that bit is recorded as a stuff position.
C2_StuffAfterEveryRun ==
    Stuffed =>
      \A s \in 0..(Len(stuffed) - 5) :
         ( /\ RunAt(s, 5)
           /\ (s = 0 \/ At(stuffed, s - 1) # At(stuffed, s))
           /\ s + 5 < ProtLen )
         => /\ At(stuffed, s + 5) = 1 - At(stuffed, s)
            /\ (s + 5) \in PosSet(stuff_pos)

\* C3 as stated: no five consecutive identical bits among the output bits
\* that correspond to the protected input.
C3_NoFiveRun ==
    Stuffed => \A s \in 0..(ProtLen - 5) : ~RunAt(s, 5)

\* C3 amended: no SIX consecutive identical bits among the output bits that
\* correspond to the protected input (a run of five is what triggers the
\* stuff bit, so runs of exactly five remain).
C3_NoSixRun ==
    Stuffed => \A s \in 0..(ProtLen - 6) : ~RunAt(s, 6)

\* C3 witness: a protected input that needed two stuff bits.
C3_Witness ==
    Stuffed /\ Len(stuff_pos) >= 2 /\ until_raw >= Len(raw)

\* C4: no stuffing beyond the protected length: every stuff position lies
\* before the stuffed position of raw bit L-1, and the raw bits with index
\* >= L are copied unchanged and contiguously up to the end of the output.
C4_NoStuffBeyond ==
    Stuffed =>
      LET m == r2s(raw, stuff_pos)
          n == Len(raw)
          L == Min(until_raw, n)
      IN  /\ \A p \in PosSet(stuff_pos) : L >= 1 /\ p < m[L]
          /\ \A i \in L..(n - 1) :
                /\ At(stuffed, At(m, i)) = At(raw, i)
                /\ (i > 0 => At(m, i) = At(m, i - 1) + 1)
          /\ At(m, n - 1) = Len(stuffed) - 1

\* C4 witness: a stuffed protected part, and a run of six identical bits
\* reaching past it that is left as it is.
C4_Witness ==
    /\ Stuffed /\ stuff_pos # <<>> /\ until_raw < Len(raw)
    /\ \E s \in 0..(Len(stuffed) - 6) : RunAt(s, 6) /\ s + 6 > ProtLen

\* s without the elements at the (0-based) positions in P
RECURSIVE DeleteAt(_, _, _)
DeleteAt(s, P, k) ==
    IF k >= Len(s) THEN <<>>
    ELSE (IF k \in P THEN <<>> ELSE <<At(s, k)>>) \o DeleteAt(s, P, k + 1)

\* C26: len(stuffed) = len(raw) + number of stuff positions; the map r2s
\* is strictly increasing, never maps to a stuff position, and
\* stuffed[r2s[i]] = raw[i] for every raw index i, so deleting the stuff
\* positions from the stuffed output yields exactly raw.
C26_RawToStuffed ==
    Stuffed =>
      LET m == r2s(raw, stuff_pos) IN
      /\ Len(stuffed) = Len(raw) + Len(stuff_pos)
      /\ Len(m) = Len(raw)
      /\ \A i \in 0..(Len(raw) - 2) : At(m, i) < At(m, i + 1)
      /\ \A i \in 0..(Len(raw) - 1) :
            /\ At(m, i) \notin PosSet(stuff_pos)
            /\ At(m, i) \in 0..(Len(stuffed) - 1)
            /\ At(stuffed, At(m, i)) = At(raw, i)
      /\ DeleteAt(stuffed, PosSet(stuff_pos), 0) = raw

\* C26 witness: two stuff bits, so that the last raw bit sits two places
\* further on in the stuffed output.
C26_Witness ==
    /\ Stuffed
    /\ Len(stuff_pos) = 2
    /\ At(r2s(raw, stuff_pos), Len(raw) - 1) = Len(raw) + 1

\* the bits of the stuffed stream that _destuff stepped over
Dropped == destuff_dropped(stuffed)

\* the number of bits _destuff had put out when it reached input index p
KeptBefore(p) == p - Cardinality({j \in Dropped : j < p})

\* C27: the clean sequence is no longer than the input, the difference is
\* the number of input bits dropped, and each dropped bit is the input bit
\* right after a completed run of five identical output bits.
C27_DroppedAfterFive ==
    phase = "clean" =>
       /\ Len(clean) <= Len(stuffed)
       /\ Len(stuffed) - Len(clean) = Cardinality(Dropped)
       /\ clean = DeleteAt(stuffed, Dropped, 0)
       /\ \A p \in Dropped :
             LET n == KeptBefore(p) IN
             /\ n >= 5
             /\ p - 1 \notin Dropped
             /\ \A j \in (n - 4)..n : clean[j] = At(stuffed, p - 1)

\* C27 witness: two bits dropped, one of them a bit that repeats the run
\* in front of it.
C27_Witness ==
    /\ phase = "clean"
    /\ Cardinality(Dropped) = 2
    /\ \E p \in Dropped : At(stuffed, p) = At(stuffed, p - 1)

(***************************************************************************)
(* Claims on CodeEAKDecoder.feed (Spec, SpecChunk)                         *)
(*                                                                         *)
(* scan[n] is the state at the top of the n-th loop iteration of the last  *)
(* feed call and scan[n+1] the state after it.                             *)
(***************************************************************************)
Steps == 1..(Len(scan) - 1)

Pre(n) == scan[n].d
Post(n) == scan[n + 1].d

\* iteration n found a valid header with all 8 bytes present
RecordAt(n) == is_header(payload, scan[n].i) /\ Len(payload) - scan[n].i >= 8
\* iteration n found a valid header with fewer than 8 bytes left
ShortAt(n) == is_header(payload, scan[n].i) /\ Len(payload) - scan[n].i < 8
LevelAt(n) == At(payload, scan[n].i + 1)
TsAt(n) == unpack_le(payload, scan[n].i)
BytesAt(n) == SubSeq(payload, scan[n].i + 1, scan[n].i + 8)

\* the record of iteration n is below the last stored timestamp
RollbackAt(n) ==
    /\ RecordAt(n)
    /\ Pre(n).timestamp_data # <<>>
    /\ TsAt(n) < Last(Pre(n).timestamp_data)

\* iteration n left the state of a session that holds this record only
DidReset(n) ==
    /\ Post(n).state_data = <<LevelAt(n)>>
    /\ Post(n).timestamp_data = <<TsAt(n)>>

NonDecreasing(ts) == \A k \in 1..(Len(ts) - 1) : ts[k] <= ts[k + 1]

\* C5: a valid record whose timestamp is strictly below the last stored
\* timestamp discards levels, timestamps, bits, duty accumulator, total_time
\* and bit duration and is decoded from bit index 0: the state after it is
\* the state of a fresh decoder fed only that record.
C5_RollbackResets ==
    \A n \in Steps :
       RollbackAt(n) =>
          /\ Post(n) = feed(reset, BytesAt(n))
          /\ DidReset(n)
          /\ Post(n).total_time = TsAt(n)
          /\ Post(n).current_bit_index = Len(Post(n).bit_data)
          /\ Post(n).current_bit_index * (BIT_T * 10) <= TsAt(n) * 10
          /\ Post(n).bit_duration = BIT_T * 10

\* C5 witness: a rollback in a session that had decoded a bit and held a
\* partial duty share.
C5_Witness ==
    /\ phase = "session"
    /\ \E n \in Steps :
          /\ RollbackAt(n)
          /\ Pre(n).bit_data # <<>>
          /\ Pre(n).current_bit_state_pct # ZeroPct
          /\ Post(n).bit_data # Pre(n).bit_data

\* C6 as stated: whenever a valid record's timestamp is lower than that of
\* the previous valid record scanned, stored or dropped as a duplicate, the
\* decoder performs a full reset.
C6_ResetBelowPreviousScanned ==
    \A n \in Steps :
       (RecordAt(n) /\ scan[n].seen >= 0 /\ TsAt(n) < scan[n].seen) => DidReset(n)

\* C6 amended: the STORED timestamps of a session are non-decreasing: a valid
\* record resets the decoder exactly when its timestamp is lower than the
\* last stored timestamp; the timestamp of a record dropped as a duplicate is
\* not stored and is not compared against.
C6_ResetBelowLastStored ==
    /\ NonDecreasing(decoder.timestamp_data)
    /\ \A n \in Steps :
          (RecordAt(n) /\ Pre(n).timestamp_data # <<>>) =>
             IF TsAt(n) < Last(Pre(n).timestamp_data)
             THEN DidReset(n)
             ELSE /\ Len(Post(n).timestamp_data) >= Len(Pre(n).timestamp_data)
                  /\ SubSeq(Post(n).timestamp_data, 1, Len(Pre(n).timestamp_data))
                        = Pre(n).timestamp_data
                  /\ NonDecreasing(Post(n).timestamp_data)

\* C6 witness: a record below the timestamp of a dropped duplicate, but not
\* below the last stored one, is stored in the running session.
C6_Witness ==
    /\ phase = "session"
    /\ \E n \in Steps :
          /\ RecordAt(n)
          /\ Pre(n).timestamp_data # <<>>
          /\ TsAt(n) < scan[n].seen
          /\ TsAt(n) >= Last(Pre(n).timestamp_data)
          /\ Len(Post(n).timestamp_data) > Len(Pre(n).timestamp_data)

\* the last payload was the same complete record twice in a row
DoubleFed ==
    /\ phase = "session"
    /\ Len(payload) = 16
    /\ SubSeq(payload, 1, 8) = SubSeq(payload, 9, 16)
    /\ Len(scan) = 3
    /\ RecordAt(1) /\ RecordAt(2)

\* C9 as stated: from any decoder state, a fresh session included, the state
\* after two identical consecutive records is the state after the first.
C9_SecondAlwaysSuppressed ==
    DoubleFed => scan[3].d = scan[2].d

\* C9 amended: when the decoder already holds a stored sample and the record
\* is not below the last stored timestamp, the second of two identical
\* consecutive records is suppressed (state after both = state after the
\* first).  In a fresh session, or when the first record is a rollback, the
\* second record is stored again (three equal levels and timestamps) but
\* decodes no bit: bits, bit index and total_time are those after the first.
C9_SecondSuppressedOnceStored ==
    DoubleFed =>
       IF Pre(1).timestamp_data # <<>> /\ TsAt(1) >= Last(Pre(1).timestamp_data)
       THEN scan[3].d = scan[2].d
       ELSE /\ scan[3].d.state_data = <<LevelAt(1), LevelAt(1), LevelAt(1)>>
            /\ scan[3].d.timestamp_data = <<TsAt(1), TsAt(1), TsAt(1)>>
            /\ scan[3].d.bit_data = scan[2].d.bit_data
            /\ scan[3].d.current_bit_index = scan[2].d.current_bit_index
            /\ scan[3].d.total_time = scan[2].d.total_time

\* C9 witness: the first record was stored as a new edge that decoded a bit,
\* and the second one was suppressed.
C9_Witness ==
    /\ DoubleFed
    /\ Pre(1).timestamp_data # <<>>
    /\ TsAt(1) >= Last(Pre(1).timestamp_data)
    /\ Len(scan[2].d.state_data) > Len(Pre(1).state_data)
    /\ scan[2].d.bit_data # Pre(1).bit_data

\* iteration n is a duplicate: two samples stored, same level as the last
\* stored one, timestamp not below the last stored one
DuplicateAt(n) ==
    /\ RecordAt(n)
    /\ Len(Pre(n).state_data) > 1
    /\ LevelAt(n) = Last(Pre(n).state_data)
    /\ TsAt(n) >= Last(Pre(n).timestamp_data)

\* C10: a dropped duplicate leaves levels, timestamps, bits, bit index, duty
\* accumulator, total_time and bit duration unchanged and advances the scan
\* by 8 bytes.
C10_DuplicateChangesNothing ==
    \A n \in Steps :
       DuplicateAt(n) => Post(n) = Pre(n) /\ scan[n + 1].i = scan[n].i + 8

\* C10 witness: a duplicate later than everything stored, arriving while a
\* partial duty share is held.
C10_Witness ==
    /\ phase = "session"
    /\ \E n \in Steps :
          /\ DuplicateAt(n)
          /\ TsAt(n) > Pre(n).total_time
          /\ Pre(n).current_bit_state_pct # ZeroPct

\* C7: feeding bytestr[:split] and then bytestr[split:] leaves the decoder
\* in the state that feeding bytestr in a single call leaves.
C7_ChunkInvariant ==
    phase = "second" => decoder = feed(base, bytestr)

\* C8: a valid 3-byte header with fewer than 8 bytes left advances the scan
\* by exactly one byte and changes no decoder field.
C8_MalformedTail ==
    \A n \in Steps :
       ShortAt(n) => scan[n + 1].i = scan[n].i + 1 /\ Post(n) = Pre(n)

\* C8 witness: a first chunk that ends inside a record, fed to a decoder
\* that holds a sample.
C8_Witness ==
    /\ phase = "first"
    /\ \E n \in Steps : ShortAt(n) /\ Pre(n).state_data # <<>>
    /\ decoder = base

\* the bit index the bit loop of iteration n starts from
StartIndex(n) == IF RollbackAt(n) THEN 0 ELSE Pre(n).current_bit_index

\* C21: feed ends and raises nothing on every byte string: the scan index
\* grows in every iteration until the payload is used up, a record is read
\* only when all of its 8 bytes are there, the bit loop stops within the
\* record's timestamp, a byte that starts no header is skipped alone, a
\* truncated record is dropped and a rollback resets the session.
C21_FeedRecovers ==
    /\ Last(scan).i >= Len(payload)
    /\ \A n \in Steps :
          /\ scan[n].i < Len(payload)
          /\ scan[n + 1].i > scan[n].i
          /\ ~is_header(payload, scan[n].i) =>
                 scan[n + 1].i = scan[n].i + 1 /\ Post(n) = Pre(n)
          /\ ShortAt(n) => scan[n + 1].i = scan[n].i + 1 /\ Post(n) = Pre(n)
          /\ scan[n + 1].i # scan[n].i + 1 =>
                 /\ RecordAt(n)
                 /\ scan[n + 1].i = scan[n].i + 8
                 /\ scan[n + 1].i <= Len(payload)
          /\ RecordAt(n) =>
                 /\ Post(n).current_bit_index >= StartIndex(n)
                 /\ Len(Post(n).bit_data) = Post(n).current_bit_index
                 /\ Post(n).current_bit_index > StartIndex(n) =>
                        Post(n).current_bit_index * Post(n).bit_duration <= TsAt(n) * 10
          /\ RollbackAt(n) => DidReset(n)

\* C21 witness: one feed call that skips a stray byte and then meets a
\* record below the stored timestamp, which restarts the session and
\* decodes a bit.
C21_Witness ==
    /\ phase = "second"
    /\ split = 0
    /\ \E n \in Steps : ~is_header(payload, scan[n].i)
    /\ \E n \in Steps : RollbackAt(n) /\ Post(n).bit_data # <<>>

(***************************************************************************)
(* SpecBits: a session of single edges; bitlog keeps the bit loop          *)
(***************************************************************************)
\* Edges in the bit periods 0..3, 5..7 and 40..42, at offsets that are
\* multiples of a quarter of the nominal bit period.
EdgeBases == {0, 5 * BIT_T, 40 * BIT_T}

EdgeTimes == {b + 15 * k : b \in EdgeBases, k \in 0..MaxOff}

Edges == {Record(l, t) : l \in Bit, t \in EdgeTimes}

EdgeLists == UNION {[1..n -> Edges] : n \in 1..MaxEdges}

InitBits ==
    /\ decoder = reset
    /\ payload = <<>>
    /\ scan = NoScan
    /\ ChunkIdle
    /\ StuffIdle
    /\ TableIdle /\ FieldsIdle /\ EncodeIdle
    /\ edges \in EdgeLists
    /\ bitlog = <<>>
    /\ phase = "edges"
    /\ AppIdle

\* decoder.feed(r) for the next record r; bitlog is the run of the bit loop
\* (empty when the record is dropped as a duplicate)
FeedEdge ==
    /\ edges # <<>>
    /\ LET r         == Head(edges)
           tr        == feed_trace(decoder, r, Last(scan).seen)
           state     == At(r, 1)
           timestamp == unpack_le(r, 0)
           d0        == after_rollback(decoder, timestamp)
       IN  /\ decoder' = Last(tr).d
           /\ payload' = r
           /\ scan' = tr
           /\ bitlog' = IF is_duplicate(d0, state) THEN <<>>
                        ELSE bit_trace(<<append_edge(d0, state, timestamp)>>,
                                       state, timestamp)
    /\ edges' = Tail(edges)
    /\ UNCHANGED <<bytestr, split, base, raw, until_raw, stuffed, stuff_pos, clean, phase,
                   duty, history, decided, plotVars, appVars>>

NextBits == FeedEdge

SpecBits == InitBits /\ [][NextBits]_vars

(***************************************************************************)
(* SpecTable: the decision table on every bounded duty split and history   *)
(***************************************************************************)
DutyVals == {0, BIT_T * 10, DRIFT_T} \cup {HALF + k : k \in (0 - MaxDev)..MaxDev}

Histories == UNION {[1..n -> Bit] : n \in 0..MaxHist}

InitTable ==
    /\ decoder = reset
    /\ payload = <<>>
    /\ scan = NoScan
    /\ ChunkIdle
    /\ StuffIdle
    /\ BitsIdle /\ FieldsIdle /\ EncodeIdle
    /\ duty \in [Bit -> DutyVals]
    /\ history \in Histories
    /\ decided = -1
    /\ phase = "table"
    /\ AppIdle

\* CodeRawFile.py 128-141 applied to current_bit_state_pct = duty and
\* bit_data = history
Decide ==
    /\ phase = "table"
    /\ decided' = decide_bit(duty, history)
    /\ phase' = "decided"
    /\ UNCHANGED <<decoder, payload, scan, bytestr, split, base, raw, until_raw, stuffed,
                   stuff_pos, clean, edges, bitlog, duty, history, plotVars, appVars>>

NextTable == Decide

SpecTable == InitTable /\ [][NextTable]_vars

(***************************************************************************)
(* Claims on the bit loop (SpecBits, SpecTable)                            *)
(***************************************************************************)
\* level and timestamp of the record of the last FeedEdge
Level == At(payload, 1)
Stamp == unpack_le(payload, 0)

\* the iterations of the last bit loop that pushed a bit
Pushes ==
    {k \in 1..(Len(bitlog) - 1) :
        bitlog[k + 1].current_bit_index = bitlog[k].current_bit_index + 1}

\* the last five decoded bits exist and sum to n
FiveSum(h, n) == Len(h) >= 5 /\ SumSeq(SubSeq(h, Len(h) - 4, Len(h))) = n

\* the threshold table as the claims word it, on a split [low, high]
ClaimTable(low, high, h) ==
    IF low > HALF THEN 0
    ELSE IF low = HALF THEN (IF FiveSum(h, 0) THEN 1 ELSE 0)
    ELSE IF high = HALF THEN (IF FiveSum(h, 5) THEN 0 ELSE 1)
    ELSE 1

\* the split of iteration k after the share of the level opposite to the
\* sampled one has been set to the rest of the bit period
Completed(k) ==
    [bitlog[k].current_bit_state_pct EXCEPT ![1 - Level] =
        (bitlog[k].current_bit_index + 1) * bitlog[k].bit_duration
        - bitlog[k].total_time * 10]

PushedBit(k) == Last(bitlog[k + 1].bit_data)

Advanced(k) ==
    /\ bitlog[k + 1].current_bit_state_pct = ZeroPct
    /\ bitlog[k + 1].current_bit_index = bitlog[k].current_bit_index + 1
    /\ Len(bitlog[k + 1].bit_data) = Len(bitlog[k].bit_data) + 1

\* C11 as worded: a bit pushed while a partial accumulation exists is the
\* threshold table applied to the duty split the preceding partial edge
\* left; without accumulation it is the complement of the sampled level;
\* the accumulator is then [0,0] and the bit index one higher.
C11_TableOnStoredSplit ==
    \A k \in Pushes :
       /\ PushedBit(k) =
             IF bitlog[k].current_bit_state_pct = ZeroPct THEN 1 - Level
             ELSE ClaimTable(bitlog[k].current_bit_state_pct[0],
                             bitlog[k].current_bit_state_pct[1],
                             bitlog[k].bit_data)
       /\ Advanced(k)

\* C11 amended: with a partial accumulation the share of the level opposite
\* to the sampled one is first overwritten with
\* (bit index + 1) * bit duration - total_time, and the threshold table is
\* applied to the resulting split (a tie looks at the last five bits only
\* when five bits have been decoded); without accumulation the bit is the
\* complement of the sampled level; the accumulator is then [0,0] and the
\* bit index one higher.
C11_TableOnCompletedSplit ==
    \A k \in Pushes :
       /\ PushedBit(k) =
             IF bitlog[k].current_bit_state_pct = ZeroPct THEN 1 - Level
             ELSE ClaimTable(Completed(k)[0], Completed(k)[1], bitlog[k].bit_data)
       /\ Advanced(k)

\* C11 witness: a bit pushed from an accumulation whose stored split and
\* completed split fall into different rows of the table, with five bits
\* of history.
C11_Witness ==
    /\ phase = "edges"
    /\ \E k \in Pushes :
          /\ bitlog[k].current_bit_state_pct # ZeroPct
          /\ Len(bitlog[k].bit_data) >= 5
          /\ ClaimTable(Completed(k)[0], Completed(k)[1], bitlog[k].bit_data)
             # ClaimTable(bitlog[k].current_bit_state_pct[0],
                          bitlog[k].current_bit_state_pct[1],
                          bitlog[k].bit_data)
          /\ PushedBit(k) = 0

\* C12 as worded, for histories of five bits or more: a split [10, x]
\* decodes to 1 when the last five bits sum to 0 and to 0 otherwise, and a
\* split [x, 10] decodes to 0 when they sum to 5 and to 1 otherwise, for
\* every x.
C12_TieBothWays ==
    (phase = "decided" /\ Len(history) >= 5) =>
       /\ duty[0] = HALF => decided = (IF FiveSum(history, 0) THEN 1 ELSE 0)
       /\ duty[1] = HALF => decided = (IF FiveSum(history, 5) THEN 0 ELSE 1)

\* C12 amended: for every x a split [10, x] decodes to 1 when five bits
\* have been decoded and the last five sum to 0, and to 0 otherwise; a split
\* [x, 10] with x < 10 decodes to 0 when five bits have been decoded and the
\* last five sum to 5, and to 1 otherwise; a split [x, 10] with x > 10
\* decodes to 0.
C12_TieLowFirst ==
    phase = "decided" =>
       /\ duty[0] = HALF => decided = (IF FiveSum(history, 0) THEN 1 ELSE 0)
       /\ (duty[0] < HALF /\ duty[1] = HALF) =>
             decided = (IF FiveSum(history, 5) THEN 0 ELSE 1)
       /\ (duty[0] > HALF /\ duty[1] = HALF) => decided = 0

\* C12 witness: a high tie below a low share, decided 0 by five ones.
C12_Witness ==
    /\ phase = "decided"
    /\ duty[0] < HALF /\ duty[1] = HALF
    /\ FiveSum(history, 5)
    /\ decided = 0

\* C13 as worded: a bit decoded while at most 40 bits have been decoded is
\* integrated with 200 tenths, a bit decoded once more than 40 bits have
\* been decoded with 201 tenths, and 201 is kept until a reset.
C13_DurationPerBit ==
    /\ \A k \in Pushes :
          bitlog[k].bit_duration =
             IF bitlog[k].current_bit_index > 40 THEN DRIFT_T ELSE BIT_T * 10
    /\ \A n \in Steps :
          (Pre(n).bit_duration = DRIFT_T /\ ~DidReset(n)) =>
             Post(n).bit_duration = DRIFT_T

\* C13 amended: the duration is chosen once per stored record, before its
\* bits are integrated: a record stored at a bit index of at most 40
\* integrates all its bits with 200 tenths, also those beyond bit 40, a
\* record stored at a bit index above 40 integrates with 201 tenths; every
\* bit up to index 40 is integrated with 200, the loop stops at the first
\* bit period of that duration the edge does not span, and 201 is kept
\* until a reset.
C13_DurationPerRecord ==
    /\ bitlog # <<>> =>
          LET dur == IF bitlog[1].current_bit_index > 40 THEN DRIFT_T ELSE BIT_T * 10 IN
          /\ \A k \in 1..Len(bitlog) : bitlog[k].bit_duration = dur
          /\ \A k \in Pushes : (bitlog[k].current_bit_index + 1) * dur <= Stamp * 10
          /\ (Last(bitlog).current_bit_index + 1) * dur > Stamp * 10
          /\ decoder.bit_duration = dur
    /\ \A k \in Pushes :
          bitlog[k].current_bit_index <= 40 => bitlog[k].bit_duration = BIT_T * 10
    /\ \A n \in Steps :
          (Pre(n).bit_duration = DRIFT_T /\ ~DidReset(n)) =>
             Post(n).bit_duration = DRIFT_T

\* C13 witness: a record stored at bit index 40 or below that pushes a bit
\* beyond index 40 with 200 tenths, in a session that is not fresh.
C13_Witness ==
    /\ phase = "edges"
    /\ Len(decoder.state_data) > 1
    /\ bitlog # <<>>
    /\ \E k \in Pushes :
          bitlog[k].current_bit_index > 40 /\ bitlog[k].bit_duration = BIT_T * 10

(***************************************************************************)
(* Decode side: the field extraction of _redraw_plot                       *)
(***************************************************************************)
\* Python slice s[a:b] for 0 <= a
Slice(s, a, b) == SubSeq(s, a + 1, Min(b, Len(s)))

\* CodeRawFile.py 454: int(''.join(map(str, s)), 2)
RECURSIVE to_int(_)
to_int(s) == IF s = <<>> THEN 0 ELSE 2 * to_int(SubSeq(s, 1, Len(s) - 1)) + s[Len(s)]

\* the digits of the X presentation type
HEX_UPPER == <<"0", "1", "2", "3", "4", "5", "6", "7", "8", "9", "A", "B", "C", "D", "E", "F">>

RECURSIVE hex_digits(_)
hex_digits(v) ==
    IF v < 16 THEN <<HEX_UPPER[v + 1]>>
    ELSE hex_digits(v \div 16) \o <<HEX_UPPER[(v % 16) + 1]>>

\* zero padding of a format specification 0{n}: pads, never truncates
RECURSIVE zero_pad(_, _, _)
zero_pad(s, n, zero) == IF Len(s) >= n THEN s ELSE zero_pad(<<zero>> \o s, n, zero)

\* CodeRawFile.py 459, 464, 474, 481: f"0x{v:0{width}X}"
format_hex(v, width) == <<"0", "x">> \o zero_pad(hex_digits(v), width, "0")

\* f"DATA{i}" for i in 0..7
DATA_NAMES == <<"DATA0", "DATA1", "DATA2", "DATA3", "DATA4", "DATA5", "DATA6", "DATA7">>

\* Variant of data_loop that needs one bit more than the byte.
RECURSIVE data_loop_strict(_, _, _, _)
data_loop_strict(nb, lim, i, hm) ==
    IF i < lim /\ Len(nb) > 19 + i * 8 + 8
    THEN data_loop_strict(nb, lim, i + 1,
                   hm @@ (DATA_NAMES[i + 1] :>
                            format_hex(to_int(Slice(nb, 19 + i * 8, 19 + i * 8 + 8)), 2)))
    ELSE hm

\* CodeRawFile.py 469-476: for i in range(min(dlc, 8)), break at the first
\* byte that is not complete
RECURSIVE data_loop(_, _, _, _)
data_loop(nb, lim, i, hm) ==
    IF i < lim /\ Len(nb) >= 19 + i * 8 + 8
    THEN data_loop(nb, lim, i + 1,
                   hm @@ (DATA_NAMES[i + 1] :>
                            format_hex(to_int(Slice(nb, 19 + i * 8, 19 + i * 8 + 8)), 2)))
    ELSE hm

\* Variant of extract_fields that shows the ID one bit early.
extract_fields_early(nb) ==
    LET m1  == IF Len(nb) >= 11
               THEN ("ID" :> format_hex(to_int(Slice(nb, 1, 12)), 3)) @@ <<>>
               ELSE <<>>
        dlc == IF Len(nb) >= 19 THEN to_int(Slice(nb, 15, 19)) ELSE 0
        m2  == IF Len(nb) >= 19 THEN m1 @@ ("DLC" :> format_hex(dlc, 1)) ELSE m1
        m3  == data_loop(nb, Min(dlc, 8), 0, m2)
    IN  IF Len(nb) >= 98
        THEN m3 @@ ("CRC" :> format_hex(to_int(Slice(nb, 83, 98)), 4))
        ELSE m3

\* Variant of extract_fields that reads the ID from the latest 11 bits.
extract_fields_latest(nb) ==
    LET m1  == IF Len(nb) >= 12
               THEN ("ID" :> format_hex(to_int(Slice(nb, Len(nb) - 11, Len(nb))), 3)) @@ <<>>
               ELSE <<>>
        dlc == IF Len(nb) >= 19 THEN to_int(Slice(nb, 15, 19)) ELSE 0
        m2  == IF Len(nb) >= 19 THEN m1 @@ ("DLC" :> format_hex(dlc, 1)) ELSE m1
        m3  == data_loop(nb, Min(dlc, 8), 0, m2)
    IN  IF Len(nb) >= 98
        THEN m3 @@ ("CRC" :> format_hex(to_int(Slice(nb, 83, 98)), 4))
        ELSE m3

\* CodeRawFile.py 453-481: hex_map, from the de-stuffed bits nb
extract_fields(nb) ==
    LET m1  == IF Len(nb) >= 12
               THEN ("ID" :> format_hex(to_int(Slice(nb, 1, 12)), 3)) @@ <<>>
               ELSE <<>>
        dlc == IF Len(nb) >= 19 THEN to_int(Slice(nb, 15, 19)) ELSE 0
        m2  == IF Len(nb) >= 19 THEN m1 @@ ("DLC" :> format_hex(dlc, 1)) ELSE m1
        m3  == data_loop(nb, Min(dlc, 8), 0, m2)
    IN  IF Len(nb) >= 98
        THEN m3 @@ ("CRC" :> format_hex(to_int(Slice(nb, 83, 98)), 4))
        ELSE m3

(***************************************************************************)
(* Encode side: build_can_fields, plot_wave                                *)
(***************************************************************************)
\* A text is a sequence of one-character strings.
UPPERS == <<"A", "B", "C", "D", "E", "F", "G", "H", "I", "J", "K", "L", "M",
            "N", "O", "P", "Q", "R", "S", "T", "U", "V", "W", "X", "Y", "Z">>
LOWERS == <<"a", "b", "c", "d", "e", "f", "g", "h", "i", "j", "k", "l", "m",
            "n", "o", "p", "q", "r", "s", "t", "u", "v", "w", "x", "y", "z">>

\* str.lower()
lower_char(c) ==
    IF \E k \in 1..Len(UPPERS) : UPPERS[k] = c
    THEN LOWERS[CHOOSE k \in 1..Len(UPPERS) : UPPERS[k] = c]
    ELSE c

lower(t) == [k \in 1..Len(t) |-> lower_char(t[k])]

WHITESPACE == {" ", "\t", "\n"}

\* str.strip()
RECURSIVE lstrip(_)
lstrip(t) == IF t # <<>> /\ t[1] \in WHITESPACE THEN lstrip(Tail(t)) ELSE t

RECURSIVE rstrip(_)
rstrip(t) ==
    IF t # <<>> /\ t[Len(t)] \in WHITESPACE THEN rstrip(SubSeq(t, 1, Len(t) - 1)) ELSE t

strip(t) == rstrip(lstrip(t))

\* can_demo1.py 39: the string "0123456789abcdef"
HEX_LOWER == <<"0", "1", "2", "3", "4", "5", "6", "7", "8", "9", "a", "b", "c", "d", "e", "f">>

is_hex(c) == \E k \in 1..Len(HEX_LOWER) : HEX_LOWER[k] = c

\* int(t, 16) for a text of lower-case hex digits
RECURSIVE parse_hex(_)
parse_hex(t) ==
    IF t = <<>> THEN 0
    ELSE 16 * parse_hex(SubSeq(t, 1, Len(t) - 1))
         + (CHOOSE k \in 1..Len(HEX_LOWER) : HEX_LOWER[k] = t[Len(t)]) - 1

\* the digits of the b presentation type
RECURSIVE bin_digits(_)
bin_digits(v) == IF v < 2 THEN <<v>> ELSE bin_digits(v \div 2) \o <<v % 2>>

\* can_demo1.py 33-34: [int(b) for b in f"{v:0{n}b}"]
int_to_bits(v, n) == zero_pad(bin_digits(v), n, 0)

\* can_demo1.py 42: [data_hex[i:i+2] for i in range(0, len(data_hex), 2)]
RECURSIVE pairs(_)
pairs(t) == IF t = <<>> THEN <<>> ELSE <<Slice(t, 0, 2)>> \o pairs(Slice(t, 2, Len(t)))

Zeros(n) == [k \in 1..n |-> 0]
Ones(n) == [k \in 1..n |-> 1]

Field(name, bits) == [name |-> name, bits |-> bits]

\* can_demo1.py 37-50: the field list, or the ValueError raised
build_can_fields(hex_str) ==
    LET s          == strip(lower(hex_str))
        id_hex     == Slice(s, 0, 3)
        data_hex   == Slice(s, 3, Len(s))
        data_bytes == pairs(data_hex)
    IN  IF Len(s) < 3 \/ \E k \in 1..Len(s) : ~is_hex(s[k])
        THEN [ok |-> FALSE, error |-> "Enter hex string"]
        ELSE IF Len(data_bytes) > 8
        THEN [ok |-> FALSE, error |-> "Classic CAN supports <= 8 data bytes"]
        ELSE [ok |-> TRUE,
              fields |->
                 <<Field("SOF", <<0>>), Field("ID", int_to_bits(parse_hex(id_hex), 11)),
                   Field("RTR", <<0>>), Field("IDE", <<0>>), Field("r0", <<0>>),
                   Field("DLC", int_to_bits(Len(data_bytes), 4))>>
                 \o [i \in 1..Len(data_bytes) |->
                        Field(DATA_NAMES[i], int_to_bits(parse_hex(data_bytes[i]), 8))]
                 \o <<Field("CRC", Zeros(15)), Field("CRC_del", <<1>>), Field("ACK", <<0>>),
                      Field("ACK_del", <<1>>), Field("EOF", Ones(7))>>]

\* can_demo1.py 65-66: raw.extend(b) over the fields
RECURSIVE concat_bits(_)
concat_bits(fields) ==
    IF fields = <<>> THEN <<>> ELSE fields[1].bits \o concat_bits(Tail(fields))

\* can_demo1.py 65-66: secs, the (name, start, length) of every field
RECURSIVE sections(_, _)
sections(fields, start) ==
    IF fields = <<>> THEN <<>>
    ELSE <<[name |-> fields[1].name, start |-> start, len |-> Len(fields[1].bits)]>>
         \o sections(Tail(fields), start + Len(fields[1].bits))

\* can_demo1.py 64-73: what the figure is drawn from
plot_wave(fields) ==
    LET raw_    == concat_bits(fields)
        secs    == sections(fields, 0)
        crc_end == secs[CHOOSE k \in 1..Len(secs) :
                           /\ secs[k].name = "CRC"
                           /\ \A j \in 1..(k - 1) : secs[j].name # "CRC"].start + 15
        st      == bitstuff(raw_, crc_end)
        map     == r2s(raw_, st.pos)
    IN  [shown |-> TRUE, fields |-> fields, raw |-> raw_, secs |-> secs,
         crc_end |-> crc_end, stuffed |-> st.out, stuff_pos |-> st.pos,
         sec_map |-> [k \in 1..Len(secs) |->
                        [name  |-> secs[k].name,
                         start |-> At(map, secs[k].start),
                         len   |-> At(map, secs[k].start + secs[k].len - 1)
                                   - At(map, secs[k].start) + 1]]]

(***************************************************************************)
(* SpecFields: _redraw_plot on decoded bit streams                         *)
(***************************************************************************)
\* CodeRawFile.py 503-565: one pass of the display loop over bits[idx]; a
\* bit that ends a run of five or more is marked STUFF and not counted in
\* actual_idx (the drawing calls are left out)
display_step(bits, st) ==
    LET bit == bits[st.idx + 1] IN
    IF bit = st.last_bit
    THEN [st EXCEPT !.idx = @ + 1, !.run_len = @ + 1, !.last_bit = bit, !.actual_idx = @ + 1]
    ELSE IF st.run_len >= 5
    THEN [st EXCEPT !.idx = @ + 1, !.run_len = 0, !.last_bit = bit, !.stuff = @ \cup {st.idx}]
    ELSE [st EXCEPT !.idx = @ + 1, !.run_len = 1, !.last_bit = bit, !.actual_idx = @ + 1]

\* CodeRawFile.py 503: for idx, bit in enumerate(bits)
RECURSIVE display_loop(_, _)
display_loop(bits, st) ==
    IF st.idx < Len(bits) THEN display_loop(bits, display_step(bits, st)) ELSE st

WireIds == {682, 1365, 2047}

FillBytes == {85, 204}

\* SOF, an 11-bit identifier, RTR/IDE/r0, a 4-bit DLC, then one byte
\* repeated, cut after n bits
WireFrame(id, dlc, byte, n) ==
    LET head == <<0>> \o int_to_bits(id, 11) \o <<0, 0, 0>> \o int_to_bits(dlc, 4)
        fill == int_to_bits(byte, 8)
    IN  [j \in 1..n |-> IF j <= Len(head) THEN head[j]
                        ELSE fill[((j - Len(head) - 1) % 8) + 1]]

WireBits ==
    {WireFrame(id, dlc, byte, n) :
        id \in WireIds, dlc \in 0..15, byte \in FillBytes, n \in 0..MaxWire}

InitFields ==
    /\ decoder = reset
    /\ payload = <<>>
    /\ scan = NoScan
    /\ ChunkIdle
    /\ StuffIdle
    /\ BitsIdle /\ TableIdle /\ EncodeIdle
    /\ wire \in WireBits
    /\ hex_map = <<>>
    /\ phase = "wire"
    /\ AppIdle

\* CodeRawFile.py 431-481: nb = _destuff(bits) and the hex_map built from it
RedrawPlot ==
    /\ phase = "wire"
    /\ clean' = destuff(wire)
    /\ hex_map' = extract_fields(destuff(wire))
    /\ marks' = display_loop(wire, display_start)
    /\ phase' = "drawn"
    /\ UNCHANGED <<decoder, payload, scan, bytestr, split, base, raw, until_raw, stuffed,
                   stuff_pos, bitVars, wire, entry, canvas, dialog, reveal, guiVars, logVars>>

NextFields == RedrawPlot

SpecFields == InitFields /\ [][NextFields]_vars

(***************************************************************************)
(* SpecEncode: the Plot button, then the decode side on the plotted frame  *)
(***************************************************************************)
\* can_demo1.py 145: the placeholder of the entry
PH == <<"e", ".", "g", ".", " ", "7", "F", "F", "1", "1", "2", "2", "3", "3", "4", "4",
        "5", "5", "6", "6", "7", "7", "8", "8">>

IdTexts ==
    {<<"0", "0", "0">>, <<"1", "2", "3">>, <<"7", "f", "f">>, <<"7", "F", "F">>,
     <<"8", "0", "0">>, <<"f", "f", "f">>}

DigitPatterns == {<<"0">>, <<"f">>, <<"1", "2", "A", "b">>}

\* n data digits, taken round robin from a pattern
DataText(pat, n) == [j \in 1..n |-> pat[((j - 1) % Len(pat)) + 1]]

FrameTexts ==
    {id \o DataText(pat, n) : id \in IdTexts, pat \in DigitPatterns, n \in 0..MaxDigits}

\* frames as typed, frames in blanks, frames with a character that is no
\* hex digit, texts that are too short, and the untouched placeholder
EntryTexts ==
    FrameTexts
    \cup {<<" ">> \o t \o <<" ", "\n">> : t \in FrameTexts}
    \cup {t \o <<"g">> : t \in FrameTexts}
    \cup {SubSeq(t, 1, 3) \o <<" ">> \o SubSeq(t, 4, Len(t)) : t \in FrameTexts}
    \cup {<<>>, <<"1">>, <<"1", "2">>, <<" ", "1", "2", " ">>, PH}

\* the figure of an earlier Plot
EarlierPlot == plot_wave(build_can_fields(<<"1", "2", "3", "4", "5">>).fields)

InitEncode ==
    /\ decoder = reset
    /\ payload = <<>>
    /\ scan = NoScan
    /\ ChunkIdle
    /\ StuffIdle
    /\ BitsIdle /\ TableIdle /\ FieldsIdle
    /\ entry \in EntryTexts
    /\ canvas \in {NoCanvas, EarlierPlot}
    /\ dialog = "none"
    /\ phase = "entry"
    /\ AppIdle

\* Variant of Plot that destroys the figure on display before it builds
\* the new one.
Plot_clear_first ==
    /\ phase = "entry"
    /\ IF entry = PH
       THEN /\ dialog' = "info"
            /\ phase' = "rejected"
            /\ UNCHANGED canvas
       ELSE LET res == build_can_fields(entry) IN
            IF ~res.ok
            THEN /\ dialog' = "error"
                 /\ phase' = "rejected"
                 /\ canvas' = NoCanvas
            ELSE /\ canvas' = plot_wave(res.fields)
                 /\ dialog' = "none"
                 /\ phase' = "plotted"
    /\ UNCHANGED <<decoder, payload, scan, bytestr, split, base, raw, until_raw, stuffed,
                   stuff_pos, clean, bitVars, wire, hex_map, entry, appVars>>

\* can_demo1.py 152-158: App._plot
Plot ==
    /\ phase = "entry"
    /\ IF entry = PH
       THEN /\ dialog' = "info"
            /\ phase' = "rejected"
            /\ UNCHANGED canvas
       ELSE LET res == build_can_fields(entry) IN
            IF ~res.ok
            THEN /\ dialog' = "error"
                 /\ phase' = "rejected"
                 /\ UNCHANGED canvas
            ELSE /\ canvas' = plot_wave(res.fields)
                 /\ dialog' = "none"
                 /\ phase' = "plotted"
    /\ UNCHANGED <<decoder, payload, scan, bytestr, split, base, raw, until_raw, stuffed,
                   stuff_pos, clean, bitVars, wire, hex_map, entry, appVars>>

\* can_demo1.py 160-162: App._reset
ResetApp ==
    /\ phase \in {"plotted", "rejected"}
    /\ entry' = PH
    /\ canvas' = NoCanvas
    /\ dialog' = "none"
    /\ phase' = "entry"
    /\ UNCHANGED <<decoder, payload, scan, bytestr, split, base, raw, until_raw, stuffed,
                   stuff_pos, clean, bitVars, wire, hex_map, appVars>>

\* CodeRawFile.py 435-450: _destuff on the stuffed bits of the figure
DestuffFrame ==
    /\ phase = "plotted"
    /\ clean' = destuff(canvas.stuffed)
    /\ phase' = "destuffed"
    /\ UNCHANGED <<decoder, payload, scan, bytestr, split, base, raw, until_raw, stuffed,
                   stuff_pos, bitVars, plotVars, appVars>>

\* CodeRawFile.py 453-481: the field extraction on the raw bits of the figure
ExtractRaw ==
    /\ phase = "destuffed"
    /\ hex_map' = extract_fields(canvas.raw)
    /\ phase' = "extracted"
    /\ UNCHANGED <<decoder, payload, scan, bytestr, split, base, raw, until_raw, stuffed,
                   stuff_pos, clean, bitVars, wire, entry, canvas, dialog, appVars>>

NextEncode == Plot \/ ResetApp \/ DestuffFrame \/ ExtractRaw

SpecEncode == InitEncode /\ [][NextEncode]_vars

(***************************************************************************)
(* Claims on the field extraction (SpecFields)                             *)
(***************************************************************************)
Present(f) == f \in DOMAIN hex_map

\* the number a shown text "0x..." stands for
RECURSIVE DigitsVal(_)
DigitsVal(t) ==
    IF t = <<>> THEN 0
    ELSE 16 * DigitsVal(SubSeq(t, 1, Len(t) - 1))
         + (CHOOSE k \in 1..Len(HEX_UPPER) : HEX_UPPER[k] = t[Len(t)]) - 1

ShownVal(t) == DigitsVal(SubSeq(t, 3, Len(t)))

IsShown(t) ==
    /\ Len(t) >= 3 /\ t[1] = "0" /\ t[2] = "x"
    /\ \A k \in 3..Len(t) : \E j \in 1..Len(HEX_UPPER) : HEX_UPPER[j] = t[k]

\* a bit sequence as an unsigned big-endian integer
RECURSIVE BigEndian(_)
BigEndian(b) == IF b = <<>> THEN 0 ELSE b[1] * 2^(Len(b) - 1) + BigEndian(Tail(b))

\* bits[a..b) of the clean sequence, 0-based
CleanBits(a, b) == SubSeq(clean, a + 1, b)

DataNames == {DATA_NAMES[k] : k \in 1..Len(DATA_NAMES)}

\* field f is shown exactly from least clean bits on, as the value of
\* bits[a..b)
ShownFrom(f, least, a, b) ==
    /\ Present(f) <=> Len(clean) >= least
    /\ Present(f) => IsShown(hex_map[f]) /\ ShownVal(hex_map[f]) = BigEndian(CleanBits(a, b))

\* C14: ID is in the extraction result iff the clean sequence has at least
\* 12 bits and is then bits[1..12) as an unsigned big-endian integer; DLC
\* iff at least 19 bits (bits[15..19)); CRC iff at least 98 bits
\* (bits[83..98)); a field below its threshold is absent and the result is
\* still a map of field names to values.
C14_Thresholds ==
    phase = "drawn" =>
       /\ ShownFrom("ID", 12, 1, 12)
       /\ ShownFrom("DLC", 19, 15, 19)
       /\ ShownFrom("CRC", 98, 83, 98)
       /\ DOMAIN hex_map \subseteq {"ID", "DLC", "CRC"} \cup DataNames

\* C14 witness: a clean sequence of 98 bits or more with a CRC that is not
\* zero, reached after bits were de-stuffed away.
C14_Witness ==
    /\ phase = "drawn"
    /\ Len(clean) >= 98 /\ Len(clean) < Len(wire)
    /\ Present("ID") /\ Present("DLC") /\ Present("CRC")
    /\ ShownVal(hex_map["CRC"]) # 0

\* the 4-bit DLC the extraction works with
CleanDlc == IF Len(clean) >= 19 THEN BigEndian(CleanBits(15, 19)) ELSE 0

\* C15: DATAk is present iff k < min(dlc, 8) and the clean sequence has at
\* least 19 + 8(k+1) bits; the DATA fields present form a prefix
\* DATA0..DATAj of at most 8 fields, also when the DLC field decodes to
\* 9..15, and the DLC shown is the 4-bit value itself.
C15_DataPrefix ==
    phase = "drawn" =>
       /\ \A k \in 0..7 :
             Present(DATA_NAMES[k + 1]) <=>
                (k < Min(CleanDlc, 8) /\ Len(clean) >= 19 + 8 * (k + 1))
       /\ \A k \in 1..7 : Present(DATA_NAMES[k + 1]) => Present(DATA_NAMES[k])
       /\ Cardinality(DOMAIN hex_map \ {"ID", "DLC", "CRC"}) <= 8
       /\ Present("DLC") => ShownVal(hex_map["DLC"]) = CleanDlc

\* C15 witness: a DLC field above 8 shown as it is, with all eight DATA
\* fields present.
C15_Witness ==
    /\ phase = "drawn"
    /\ CleanDlc > 8
    /\ Present("DLC") /\ ShownVal(hex_map["DLC"]) = CleanDlc
    /\ \A k \in 1..8 : Present(DATA_NAMES[k])

(***************************************************************************)
(* Claims on the encoder (SpecEncode)                                      *)
(***************************************************************************)
Plotted == phase \in {"plotted", "destuffed", "extracted"}

\* the entry text as build_can_fields reads it
Typed == strip(lower(entry))

DataDigits == Len(Typed) - 3

TypedId == parse_hex(Slice(Typed, 0, 3))

HasField(c, name) == \E k \in 1..Len(c.fields) : c.fields[k].name = name

FieldBits(c, name) ==
    c.fields[CHOOSE k \in 1..Len(c.fields) : c.fields[k].name = name].bits

FieldStart(c, name) ==
    c.secs[CHOOSE k \in 1..Len(c.secs) : c.secs[k].name = name].start

DataCount(c) == Cardinality({k \in 1..Len(c.fields) : c.fields[k].name \in DataNames})

\* C16: for every valid hex string the ID group is exactly 11 bits wide and
\* equals the low 11 bits of the parsed 3-digit value, so the DLC group
\* starts at raw offset 15 and DATA0 at raw offset 19.
C16_IdElevenBits ==
    Plotted =>
       /\ Len(FieldBits(canvas, "ID")) = 11
       /\ BigEndian(FieldBits(canvas, "ID")) = TypedId % 2048
       /\ FieldStart(canvas, "DLC") = 15
       /\ HasField(canvas, "DATA0") => FieldStart(canvas, "DATA0") = 19

\* C17: when the number n of hex digits after the 3 ID digits is odd, the
\* last digit is dropped: DLC = floor(n/2), floor(n/2) DATA groups, none of
\* them built from a single digit.
C17_OddDigitDropped ==
    (Plotted /\ DataDigits % 2 = 1) =>
       /\ BigEndian(FieldBits(canvas, "DLC")) = DataDigits \div 2
       /\ DataCount(canvas) = DataDigits \div 2

\* the text is too short, holds a character that is no hex digit, or holds
\* more data digits than 8 bytes take
Invalid(t) ==
    LET s == strip(lower(t)) IN
    \/ Len(s) < 3
    \/ \E k \in 1..Len(s) : ~is_hex(s[k])
    \/ Len(s) - 3 > 16

\* a complete field list: the fixed groups around DATA0..DATA(n-1), with
\* DLC = n in 0..8
Complete(c) ==
    LET n == DataCount(c) IN
    /\ c.shown
    /\ n \in 0..8
    /\ [k \in 1..Len(c.fields) |-> c.fields[k].name] =
          <<"SOF", "ID", "RTR", "IDE", "r0", "DLC">>
          \o SubSeq(DATA_NAMES, 1, n)
          \o <<"CRC", "CRC_del", "ACK", "ACK_del", "EOF">>
    /\ BigEndian(FieldBits(c, "DLC")) = n

Is7FF00 == entry = <<"7", "F", "F", "0", "0">>

\* de-stuffing the stuffed frame gives back the raw bits of every field up
\* to the end of the CRC
ReproducesToCrc ==
    SubSeq(clean, 1, canvas.crc_end) = SubSeq(canvas.raw, 1, canvas.crc_end)

\* C19 as worded: "7FF00" encodes ID = 0x7FF, DLC = 0, no DATA group and a
\* 15-bit zero CRC, and de-stuffing the stuffed frame reproduces the raw
\* bits of SOF, ID, RTR, IDE, r0, DLC and CRC.
C19_DlcZero ==
    (Is7FF00 /\ phase \in {"destuffed", "extracted"}) =>
       /\ BigEndian(FieldBits(canvas, "ID")) = 2047
       /\ BigEndian(FieldBits(canvas, "DLC")) = 0
       /\ DataCount(canvas) = 0
       /\ FieldBits(canvas, "CRC") = Zeros(15)
       /\ ReproducesToCrc

\* C19 amended: "7FF00" encodes ID = 0x7FF, DLC = 1, the single DATA group
\* DATA0 = 0x00 and a 15-bit zero CRC, and de-stuffing the stuffed frame
\* reproduces the raw bits of SOF, ID, RTR, IDE, r0, DLC, DATA0 and CRC.
C19_OneZeroByte ==
    (Is7FF00 /\ phase \in {"destuffed", "extracted"}) =>
       /\ BigEndian(FieldBits(canvas, "ID")) = 2047
       /\ BigEndian(FieldBits(canvas, "DLC")) = 1
       /\ DataCount(canvas) = 1
       /\ FieldBits(canvas, "DATA0") = Zeros(8)
       /\ FieldBits(canvas, "CRC") = Zeros(15)
       /\ ReproducesToCrc

\* C19 witness: "7FF00" plotted and de-stuffed, with stuff bits removed.
C19_Witness ==
    /\ Is7FF00
    /\ phase = "destuffed"
    /\ canvas.stuff_pos # <<>>
    /\ Len(clean) < Len(canvas.stuffed)

\* C20: the field extraction applied to the raw bits the encoder built
\* returns the encoded ID, DLC = number of data bytes, every DATAk = the
\* k-th data byte and, when it reports a CRC, the encoder's CRC group.
C20_OffsetsAgree ==
    phase = "extracted" =>
       /\ Present("ID")
       /\ ShownVal(hex_map["ID"]) = BigEndian(FieldBits(canvas, "ID"))
       /\ Present("DLC")
       /\ ShownVal(hex_map["DLC"]) = DataCount(canvas)
       /\ \A k \in 1..DataCount(canvas) :
             /\ Present(DATA_NAMES[k])
             /\ ShownVal(hex_map[DATA_NAMES[k]]) = BigEndian(FieldBits(canvas, DATA_NAMES[k]))
       /\ Present("CRC") => ShownVal(hex_map["CRC"]) = BigEndian(FieldBits(canvas, "CRC"))

(***************************************************************************)
(* SpecReveal: feed and _redraw_plot in turn, over a session of edges      *)
(***************************************************************************)
\* Edges at 0 and after 6.5, 13, 26 and 40 bit periods.
RevealTimes == {0, 6 * BIT_T + 10, 13 * BIT_T, 26 * BIT_T, 40 * BIT_T}

RevealEdges == {Record(l, t) : l \in Bit, t \in RevealTimes}

RevealLists == UNION {[1..n -> RevealEdges] : n \in 1..MaxShown}

InitReveal ==
    /\ decoder = reset
    /\ payload = <<>>
    /\ scan = NoScan
    /\ ChunkIdle
    /\ StuffIdle
    /\ TableIdle /\ FieldsIdle /\ EncodeIdle
    /\ bitlog = <<>>
    /\ edges \in RevealLists
    /\ reveal = <<>>
    /\ GuiIdle
    /\ LogIdle
    /\ MarksIdle
    /\ phase = "reveal"

\* CodeRawFile.py 385 / 388: decoder.feed(chunk), then _redraw_plot, which
\* reads decoder.bits and works out nb and hex_map (lines 431-481)
FeedShow ==
    /\ edges # <<>>
    /\ LET r  == Head(edges)
           tr == feed_trace(decoder, r, Last(scan).seen)
           d1 == Last(tr).d
           nb == destuff(d1.bit_data)
       IN  /\ decoder' = d1
           /\ payload' = r
           /\ scan' = tr
           /\ wire' = d1.bit_data
           /\ clean' = nb
           /\ hex_map' = extract_fields(nb)
           /\ marks' = display_loop(d1.bit_data, display_start)
           /\ reveal' = Append(reveal,
                               [bits     |-> d1.bit_data,
                                nb       |-> nb,
                                hex_map  |-> extract_fields(nb),
                                rollback |-> rolls_back(decoder, unpack_le(r, 0))])
    /\ edges' = Tail(edges)
    /\ UNCHANGED <<bytestr, split, base, raw, until_raw, stuffed, stuff_pos, phase,
                   bitlog, duty, history, decided, entry, canvas, dialog, guiVars, logVars>>

NextReveal == FeedShow

SpecReveal == InitReveal /\ [][NextReveal]_vars

(***************************************************************************)
(* Claims on the revealed fields (SpecReveal)                              *)
(***************************************************************************)
IsPrefix(s, t) == Len(s) <= Len(t) /\ SubSeq(t, 1, Len(s)) = s

\* C30: within one session (no reset, no timestamp rollback) the decoded
\* bits are only appended to, the de-stuffed sequence of the earlier bits
\* is a prefix of the de-stuffed sequence of the later bits, and a field
\* that has appeared in the extraction result stays present with the same
\* value after every later feed.
C30_FieldsStable ==
    \A k \in 1..(Len(reveal) - 1) :
       ~reveal[k + 1].rollback =>
          /\ IsPrefix(reveal[k].bits, reveal[k + 1].bits)
          /\ IsPrefix(reveal[k].nb, reveal[k + 1].nb)
          /\ \A f \in DOMAIN reveal[k].hex_map :
                /\ f \in DOMAIN reveal[k + 1].hex_map
                /\ reveal[k + 1].hex_map[f] = reveal[k].hex_map[f]

\* C30 witness: ID and DLC shown after one feed, kept while the next feed
\* of the session adds bits, drops stuff bits and reveals a DATA field.
C30_Witness ==
    \E k \in 1..(Len(reveal) - 1) :
       /\ ~reveal[k + 1].rollback
       /\ {"ID", "DLC"} \subseteq DOMAIN reveal[k].hex_map
       /\ "DATA0" \notin DOMAIN reveal[k].hex_map
       /\ "DATA0" \in DOMAIN reveal[k + 1].hex_map
       /\ Len(reveal[k + 1].bits) > Len(reveal[k].bits)
       /\ Len(reveal[k + 1].nb) < Len(reveal[k + 1].bits)

(***************************************************************************)
(* SpecGui: LogicAnalyzerGUI with its reader threads and after() callbacks *)
(*                                                                         *)
(* The callbacks of the UI thread (button commands, _update_from_queue,    *)
(* _update_from_file) run one at a time on the Tk main loop, so each is    *)
(* one action.  A _serial_reader thread takes a step when it opens the     *)
(* port, when it tests stop_event, and when ser.read returns.  A callback  *)
(* registered with after() stays pending until it runs; nothing cancels    *)
(* it.  The application cannot be constructed without pyserial (line 60    *)
(* calls comports() on the fallback of line 43), so _start never takes     *)
(* the branch of line 331.                                                 *)
(***************************************************************************)
READ_CHUNK == 120          \* bytes asked of ser.read and of each playback step

\* what ser.read(120) delivers: an edge at tick 0, which completes no bit,
\* and an edge two bit periods later
QuietChunk == Record(1, 0)

LoudChunk == Record(0, 2 * BIT_T)

SerialChunks == {QuietChunk, LoudChunk}

\* n records, one every gap ticks, levels alternating
RECURSIVE EdgeFile(_, _)
EdgeFile(n, gap) == IF n = 0 THEN <<>> ELSE EdgeFile(n - 1, gap) \o Record(n % 2, n * gap)

\* the files Import reads: one with an edge every two bit periods and one
\* with an edge every tick (none a bit period after the first)
Files == {EdgeFile(FileEdges, 2 * BIT_T), EdgeFile(FileEdges, 1)}

Ports == {"", "COM1"}

\* what the application actions leave alone
guiRest == <<payload, scan, bytestr, split, base, raw, until_raw, stuffed, stuff_pos, clean, phase,
             bitVars, plotVars, reveal, logVars, marks>>

\* reader threads that have been started and have not returned
alive == threads["open"] + threads["test"] + threads["read"]

\* CodeRawFile.py 220-253, 276-281; the combobox shows the first port found
InitGui ==
    /\ decoder = reset
    /\ payload = <<>>
    /\ scan = NoScan
    /\ ChunkIdle
    /\ StuffIdle
    /\ BitsIdle /\ TableIdle /\ FieldsIdle /\ EncodeIdle /\ RevealIdle /\ LogIdle /\ MarksIdle
    /\ phase = "gui"
    /\ mode_var = "Serial"
    /\ port_var \in Ports
    /\ import_btn = "normal"
    /\ start_btn = "normal"
    /\ stop_btn = "disabled"
    /\ stop_event = FALSE
    /\ queue = <<>>
    /\ threads = [pc \in {"open", "test", "read"} |-> 0]
    /\ polls = 0
    /\ plays = 0
    /\ file_bytes = <<>>
    /\ file_offset = 0
    /\ session = "none"
    /\ cleared = FALSE
    /\ serial_only = TRUE
    /\ reads = 0
    /\ presses = 0

\* CodeRawFile.py 285-288: a Mode radio button is clicked
ModeChanged(m) ==
    /\ presses < MaxPresses
    /\ presses' = presses + 1
    /\ mode_var' = m
    /\ import_btn' = IF m = "Serial" THEN "disabled" ELSE "normal"
    /\ serial_only' = (serial_only /\ m = "Serial")
    /\ UNCHANGED <<decoder, guiRest, port_var, start_btn, stop_btn, stop_event, queue, threads, polls,
                   plays, file_bytes, file_offset, session, cleared, reads>>

\* CodeRawFile.py 292-318: Import with the file f chosen in the dialog
ImportFile(f) ==
    /\ presses < MaxPresses
    /\ presses' = presses + 1
    /\ import_btn = "normal"
    /\ file_bytes' = f
    /\ file_offset' = 0
    /\ session' = "none"
    /\ UNCHANGED <<decoder, guiRest, mode_var, port_var, import_btn, start_btn, stop_btn, stop_event,
                   queue, threads, polls, plays, cleared, serial_only, reads>>

\* CodeRawFile.py 322-346
PressStart ==
    /\ presses < MaxPresses
    /\ presses' = presses + 1
    /\ start_btn = "normal"
    /\ stop_event' = FALSE
    /\ cleared' = FALSE
    /\ IF mode_var = "Serial"
       THEN /\ IF port_var = ""
               THEN /\ session' = "none"
                    /\ UNCHANGED <<threads, polls, start_btn, stop_btn>>
               ELSE /\ alive < MaxThreads
                    /\ polls < MaxPending
                    /\ threads' = [threads EXCEPT !["open"] = @ + 1]
                    /\ polls' = polls + 1
                    /\ start_btn' = "disabled"
                    /\ stop_btn' = "normal"
                    /\ session' = "serial"
            /\ UNCHANGED plays
       ELSE /\ IF file_bytes = <<>>
               THEN /\ session' = "none"
                    /\ UNCHANGED <<plays, start_btn, stop_btn>>
               ELSE /\ plays < MaxPending
                    /\ plays' = plays + 1
                    /\ start_btn' = "disabled"
                    /\ stop_btn' = "normal"
                    /\ session' = "file"
            /\ UNCHANGED <<threads, polls>>
    /\ UNCHANGED <<decoder, guiRest, mode_var, port_var, import_btn, queue, file_bytes, file_offset,
                   serial_only, reads>>

\* CodeRawFile.py 350-353
PressStop ==
    /\ presses < MaxPresses
    /\ presses' = presses + 1
    /\ stop_btn = "normal"
    /\ stop_event' = TRUE
    /\ start_btn' = "normal"
    /\ stop_btn' = "disabled"
    /\ session' = "none"
    /\ UNCHANGED <<decoder, guiRest, mode_var, port_var, import_btn, queue, threads, polls, plays,
                   file_bytes, file_offset, cleared, serial_only, reads>>

\* CodeRawFile.py 357-363: _stop(), decoder.reset(), queue.queue.clear(), file_offset = 0
PressReset ==
    /\ presses < MaxPresses
    /\ presses' = presses + 1
    /\ stop_event' = TRUE
    /\ start_btn' = "normal"
    /\ stop_btn' = "disabled"
    /\ decoder' = reset
    /\ queue' = <<>>
    /\ file_offset' = 0
    /\ session' = "none"
    /\ cleared' = TRUE
    /\ UNCHANGED <<guiRest, mode_var, port_var, import_btn, threads, polls, plays, file_bytes,
                   serial_only, reads>>

\* CodeRawFile.py 369: serial.Serial(port, BAUD, timeout=1) succeeds
ReaderOpen ==
    /\ threads["open"] > 0
    /\ threads' = [threads EXCEPT !["open"] = @ - 1, !["test"] = @ + 1]
    /\ UNCHANGED <<decoder, guiRest, mode_var, port_var, import_btn, start_btn, stop_btn, stop_event,
                   queue, polls, plays, file_bytes, file_offset, session, cleared, serial_only, reads, presses>>

\* CodeRawFile.py 374-376: serial.Serial or ser.read raises SerialException
ReaderError ==
    /\ \E pc \in {"open", "read"} :
          /\ threads[pc] > 0
          /\ threads' = [threads EXCEPT ![pc] = @ - 1]
    /\ stop_event' = TRUE
    /\ UNCHANGED <<decoder, guiRest, mode_var, port_var, import_btn, start_btn, stop_btn, queue, polls,
                   plays, file_bytes, file_offset, session, cleared, serial_only, reads, presses>>

\* CodeRawFile.py 370: the loop test; the thread returns once stop_event is set
ReaderTest ==
    /\ threads["test"] > 0
    /\ threads' = IF stop_event
                  THEN [threads EXCEPT !["test"] = @ - 1]
                  ELSE [threads EXCEPT !["test"] = @ - 1, !["read"] = @ + 1]
    /\ UNCHANGED <<decoder, guiRest, mode_var, port_var, import_btn, start_btn, stop_btn, stop_event,
                   queue, polls, plays, file_bytes, file_offset, session, cleared, serial_only, reads, presses>>

\* Variant of reader_put in which the reader thread decodes the chunk itself.
reader_put_feeds(qu, d, pkt) == [queue |-> qu, decoder |-> feed(d, pkt)]

\* CodeRawFile.py 373: self.queue.put(pkt)
reader_put(qu, d, pkt) == [queue |-> Append(qu, pkt), decoder |-> d]

\* CodeRawFile.py 371-373: ser.read(120) returns pkt, empty after the timeout
ReaderRead(pkt) ==
    /\ threads["read"] > 0
    /\ threads' = [threads EXCEPT !["read"] = @ - 1, !["test"] = @ + 1]
    /\ IF pkt # <<>>
       THEN /\ reads < MaxReads
            /\ reads' = reads + 1
            /\ queue' = reader_put(queue, decoder, pkt).queue
            /\ decoder' = reader_put(queue, decoder, pkt).decoder
       ELSE UNCHANGED <<reads, queue, decoder>>
    /\ UNCHANGED <<guiRest, mode_var, port_var, import_btn, start_btn, stop_btn, stop_event, polls,
                   plays, file_bytes, file_offset, session, cleared, serial_only, presses>>

\* CodeRawFile.py 382-387: every queued chunk is fed, oldest first
RECURSIVE drain(_, _)
drain(d, qu) == IF qu = <<>> THEN d ELSE drain(feed(d, Head(qu)), Tail(qu))

\* CodeRawFile.py 572: bits[-1] raises IndexError on an empty bit list
redraw_raises(d) == d.bit_data = <<>>

\* CodeRawFile.py 380-390: a pending _update_from_queue callback runs
UpdateFromQueue ==
    /\ polls > 0
    /\ LET d1 == drain(decoder, queue)
       IN  /\ decoder' = d1
           /\ queue' = <<>>
           /\ polls' = IF redraw_raises(d1) \/ stop_event THEN polls - 1 ELSE polls
    /\ UNCHANGED <<guiRest, mode_var, port_var, import_btn, start_btn, stop_btn, stop_event, threads,
                   plays, file_bytes, file_offset, session, cleared, serial_only, reads, presses>>

\* CodeRawFile.py 392-407: a pending _update_from_file callback runs
UpdateFromFile ==
    /\ plays > 0
    /\ IF stop_event
       THEN /\ plays' = plays - 1
            /\ UNCHANGED <<decoder, file_offset, stop_event, start_btn, stop_btn>>
       ELSE LET step == Min(READ_CHUNK, Len(file_bytes) - file_offset)
                off  == IF step > 0 THEN file_offset + step ELSE file_offset
                d1   == IF step > 0
                        THEN feed(decoder, SubSeq(file_bytes, file_offset + 1, file_offset + step))
                        ELSE decoder
            IN  /\ decoder' = d1
                /\ file_offset' = off
                /\ IF redraw_raises(d1)
                   THEN /\ plays' = plays - 1
                        /\ UNCHANGED <<stop_event, start_btn, stop_btn>>
                   ELSE IF off < Len(file_bytes)
                   THEN UNCHANGED <<plays, stop_event, start_btn, stop_btn>>
                   ELSE /\ plays' = plays - 1
                        /\ stop_event' = TRUE
                        /\ start_btn' = "normal"
                        /\ stop_btn' = "disabled"
    /\ UNCHANGED <<guiRest, mode_var, port_var, import_btn, queue, threads, polls, file_bytes,
                   session, cleared, serial_only, reads, presses>>

NextGui ==
    \/ \E m \in {"Serial", "File"} : ModeChanged(m)
    \/ \E f \in Files : ImportFile(f)
    \/ PressStart
    \/ PressStop
    \/ PressReset
    \/ ReaderOpen
    \/ ReaderError
    \/ ReaderTest
    \/ \E pkt \in SerialChunks \cup {<<>>} : ReaderRead(pkt)
    \/ UpdateFromQueue
    \/ UpdateFromFile

SpecGui == InitGui /\ [][NextGui]_vars

\* C22: once Reset has been pressed and until Start is pressed again, the
\* decoder holds no levels, timestamps or bits, the queue is empty and
\* file_offset is 0, whatever the reader threads and pending callbacks do.
C22_ResetClean ==
    cleared => /\ decoder.state_data = <<>>
               /\ decoder.timestamp_data = <<>>
               /\ decoder.bit_data = <<>>
               /\ queue = <<>>
               /\ file_offset = 0

\* C24: a step that changes the decoder is a callback of the UI thread: no
\* step of a reader thread (each of which moves a thread, so changes
\* threads) changes the decoder.  The UI callbacks are single actions, so
\* no two of them overlap.
C24_OnlyUiMutates == [][decoder' # decoder => threads' = threads]_vars

\* A reader thread has put a chunk that is still queued, after an earlier
\* chunk was fed by the poll callback and gave bits.
C24_Witness == queue # <<>> /\ decoder.bit_data # <<>> /\ threads["test"] > 0

\* C25: while the mode has been Serial throughout, at most one reader thread
\* is alive and at most one _update_from_queue callback is pending.
C25_OneReaderOnePoll == serial_only => alive <= 1 /\ polls <= 1

\* C28: during a Serial run (Start pressed in Serial mode, neither Stop nor
\* Reset since, stop_event clear) an _update_from_queue callback is pending.
C28_PollReschedules == (session = "serial" /\ ~stop_event) => polls >= 1

\* C29: during a File run (Start pressed in File mode with a file, neither
\* Stop nor Reset since) playback is either still scheduled or has reached
\* the end of the file, set stop_event and re-enabled Start.
C29_PlaybackCompletes ==
    (session = "file" /\ plays = 0) =>
        /\ file_offset = Len(file_bytes)
        /\ stop_event
        /\ start_btn = "normal"

(***************************************************************************)
(* SpecLog: the square-wave visualizer of src/CAN_Real.py                  *)
(*                                                                         *)
(* A line is the list of its words (what strip() and split() leave): the   *)
(* first word a token, the later ones lists of characters.  The button     *)
(* commands and _update_plot run on the Tk main loop, one action each; a   *)
(* worker thread takes one step per line, loop test or port operation.     *)
(* _update_plot is scheduled by the constructor and reschedules itself at  *)
(* the end of every run, so it is always pending.                          *)
(***************************************************************************)
BIT_MASK == 255            \* 0xFF

T_FIRST == "2025-05-15T10:00:00"

T_NEXT == "2025-05-15T10:00:01"

\* datetime.fromisoformat on the timestamps of the model, in seconds since
\* midnight; every other word raises ValueError
IsoSeconds == (T_FIRST :> 36000) @@ (T_NEXT :> 36001)

\* int(w, 16) raises ValueError unless w is a non-empty list of hex digits
hex_ok(w) == w # <<>> /\ \A k \in 1..Len(w) : is_hex(w[k])

\* the line read_from_serial queues on SerialException
ErrLine == <<"#ERR", <<"p", "o", "r", "t">>>>

\* lines the port delivers: a sample, a sample whose low byte is zero, one
\* with a bad byte, one with a bad timestamp
SerialLines ==
    {<<T_FIRST, <<"0", "1">>>>, <<T_NEXT, <<"1", "0", "0">>>>,
     <<T_NEXT, <<"z", "z">>>>, <<"bogus", <<"0", "1">>>>}

\* the log files Open Log selects
LogFiles ==
    {<<<<T_FIRST, <<"0", "1">>>>, <<T_NEXT, <<"0", "0">>>>>>,
     <<<<T_FIRST, <<"f", "f">>>>, <<>>, <<T_NEXT>>>>}

\* what the visualizer actions leave alone
logRest == <<decoder, payload, scan, bytestr, split, base, raw, until_raw, stuffed, stuff_pos, clean,
             phase, bitVars, plotVars, reveal, marks, mode_var, port_var, import_btn, start_btn, stop_btn,
             stop_event, queue, threads, polls, plays, file_bytes, file_offset, session, cleared,
             serial_only>>

\* Thread.is_alive()
is_alive(th) == th.pc # "done"

\* threads that have been started and have not returned
running == Len(orphans) + (IF is_alive(worker) THEN 1 ELSE 0)

\* CAN_Real.py 84-86, 95, 134-143; the combobox shows the first port found
InitLog ==
    /\ decoder = reset
    /\ payload = <<>>
    /\ scan = NoScan
    /\ ChunkIdle
    /\ StuffIdle
    /\ BitsIdle /\ TableIdle /\ FieldsIdle /\ EncodeIdle /\ RevealIdle /\ GuiIdle /\ MarksIdle
    /\ phase = "log"
    /\ q = <<>>
    /\ stop_e = FALSE
    /\ trig_e = FALSE
    /\ worker = NoWorker
    /\ orphans = <<>>
    /\ reader = "read_from_serial"
    /\ cbo_port \in Ports
    /\ var_trigger \in BOOLEAN
    /\ btn_start = "normal"
    /\ btn_stop = "disabled"
    /\ xs = <<>>
    /\ ys = <<>>
    /\ t0 = -1
    /\ touched = FALSE

\* CAN_Real.py 199-220.  The baud combobox is read-only and always holds a
\* number.  With self.reader = read_from_file the thread runs
\* read_from_file(port, baud, q, ...), which fails on open(port) or on
\* baud.put: it ends without queueing anything.
start ==
    /\ btn_start = "normal"
    /\ presses < MaxPresses
    /\ presses' = presses + 1
    /\ IF cbo_port = "" \/ is_alive(worker)
       THEN UNCHANGED <<stop_e, trig_e, worker, btn_start, btn_stop>>
       ELSE /\ running < MaxThreads
            /\ stop_e' = FALSE
            /\ trig_e' = var_trigger
            /\ worker' = [kind |-> IF reader = "read_from_serial" THEN "serial" ELSE "misuse",
                          pc   |-> "open", log |-> <<>>, pos |-> 0]
            /\ btn_start' = "disabled"
            /\ btn_stop' = "normal"
    /\ UNCHANGED <<logRest, reads, q, orphans, reader, cbo_port, var_trigger, xs, ys, t0, touched>>

\* CAN_Real.py 222-225, pressed by the user
stop ==
    /\ btn_stop = "normal"
    /\ presses < MaxPresses
    /\ presses' = presses + 1
    /\ stop_e' = TRUE
    /\ btn_start' = "normal"
    /\ btn_stop' = "disabled"
    /\ touched' = TRUE
    /\ UNCHANGED <<logRest, reads, q, trig_e, worker, orphans, reader, cbo_port, var_trigger, xs, ys, t0>>

\* CAN_Real.py 227-232, pressed by the user: stop(), then the samples are dropped
clear ==
    /\ presses < MaxPresses
    /\ presses' = presses + 1
    /\ stop_e' = TRUE
    /\ btn_start' = "normal"
    /\ btn_stop' = "disabled"
    /\ xs' = <<>>
    /\ ys' = <<>>
    /\ t0' = -1
    /\ touched' = TRUE
    /\ UNCHANGED <<logRest, reads, q, trig_e, worker, orphans, reader, cbo_port, var_trigger>>

\* CAN_Real.py 234-247: Open Log with the file f chosen in the dialog;
\* self.clear() runs first, then the file thread is started
open_file(f) ==
    /\ presses < MaxPresses
    /\ presses' = presses + 1
    /\ running < MaxThreads
    /\ stop_e' = TRUE
    /\ xs' = <<>>
    /\ ys' = <<>>
    /\ t0' = -1
    /\ reader' = "read_from_file"
    /\ orphans' = IF is_alive(worker) THEN Append(orphans, worker) ELSE orphans
    /\ worker' = [kind |-> "file", pc |-> "open", log |-> f, pos |-> 0]
    /\ btn_start' = "disabled"
    /\ btn_stop' = "normal"
    /\ touched' = FALSE
    /\ UNCHANGED <<logRest, reads, q, trig_e, cbo_port, var_trigger>>

\* CAN_Real.py 61-66: one pass of the for loop of read_from_file
read_from_file(th, qu, stop_evt) ==
    {IF th.pos = Len(th.log) \/ stop_evt
     THEN [th |-> [th EXCEPT !.pc = "done"], q |-> qu]
     ELSE [th |-> [th EXCEPT !.pc = "loop", !.pos = @ + 1], q |-> Append(qu, th.log[th.pos + 1])]}

\* CAN_Real.py 46-59: the steps of read_from_serial: the port opens or
\* raises; the loop test; readline returns nothing, a line, or raises
read_from_serial(th, qu, stop_evt, trig_evt) ==
    IF th.pc = "open"
    THEN {[th |-> [th EXCEPT !.pc = "loop"], q |-> qu],
          [th |-> [th EXCEPT !.pc = "done"], q |-> Append(qu, ErrLine)]}
    ELSE IF th.pc = "loop"
    THEN IF stop_evt THEN {[th |-> [th EXCEPT !.pc = "done"], q |-> qu]}
         ELSE IF ~trig_evt THEN {}
         ELSE {[th |-> [th EXCEPT !.pc = "read"], q |-> qu]}
    ELSE {[th |-> [th EXCEPT !.pc = "loop"], q |-> qu],
          [th |-> [th EXCEPT !.pc = "done"], q |-> Append(qu, ErrLine)]}
         \cup {[th |-> [th EXCEPT !.pc = "loop"], q |-> Append(qu, ln)] : ln \in SerialLines}

\* the steps thread th can take next
thread_steps(th) ==
    IF th.kind = "file" THEN read_from_file(th, q, stop_e)
    ELSE IF th.kind = "serial" THEN read_from_serial(th, q, stop_e, trig_e)
    ELSE {[th |-> [th EXCEPT !.pc = "done"], q |-> q]}

\* lines from the port count against the bound
counts(o) == IF o.th.kind = "serial" /\ o.q # q THEN 1 ELSE 0

RemoveAt(s, i) == SubSeq(s, 1, i - 1) \o SubSeq(s, i + 1, Len(s))

\* the thread self.worker refers to takes a step
WorkerStep ==
    /\ is_alive(worker)
    /\ \E o \in thread_steps(worker) :
          /\ reads + counts(o) <= MaxReads
          /\ reads' = reads + counts(o)
          /\ worker' = o.th
          /\ q' = o.q
    /\ UNCHANGED <<logRest, presses, stop_e, trig_e, orphans, reader, cbo_port, var_trigger,
                   btn_start, btn_stop, xs, ys, t0, touched>>

\* a thread started earlier and still alive takes a step
OrphanStep ==
    /\ \E i \in 1..Len(orphans) : \E o \in thread_steps(orphans[i]) :
          /\ reads + counts(o) <= MaxReads
          /\ reads' = reads + counts(o)
          /\ orphans' = IF is_alive(o.th) THEN [orphans EXCEPT ![i] = o.th] ELSE RemoveAt(orphans, i)
          /\ q' = o.q
    /\ UNCHANGED <<logRest, presses, stop_e, trig_e, worker, reader, cbo_port, var_trigger,
                   btn_start, btn_stop, xs, ys, t0, touched>>

\* CAN_Real.py 270-283: _parse_line on the samples st = [xs, ys, t0]
parse_line(ln, st) ==
    IF Len(ln) < 2 THEN st
    ELSE IF ln[1] \notin DOMAIN IsoSeconds THEN st
    ELSE LET t    == IsoSeconds[ln[1]]
             zero == IF st.t0 = -1 THEN t ELSE st.t0
             s1   == [st EXCEPT !.t0 = zero, !.xs = Append(@, t - zero)]
         IN  IF ~hex_ok(ln[2]) THEN s1
             ELSE [s1 EXCEPT !.ys = Append(@, IF parse_hex(ln[2]) % (BIT_MASK + 1) # 0 THEN 1 ELSE 0)]

\* CAN_Real.py 255: ln.startswith("#ERR")
starts_err(ln) == ln # <<>> /\ ln[1] = "#ERR"

\* CAN_Real.py 253-261: the drain loop; an #ERR line stops the run and
\* leaves the rest of the queue in place
RECURSIVE plot_drain(_)
plot_drain(st) ==
    IF st.q = <<>> THEN st
    ELSE IF starts_err(Head(st.q))
    THEN [st EXCEPT !.q = Tail(@), !.stopped = TRUE]
    ELSE plot_drain([parse_line(Head(st.q), st) EXCEPT !.q = Tail(st.q)])

\* CAN_Real.py 250-268: the pending _update_plot callback runs
update_plot ==
    /\ LET st == plot_drain([q |-> q, xs |-> xs, ys |-> ys, t0 |-> t0, stopped |-> FALSE])
       IN  /\ q' = st.q
           /\ xs' = st.xs
           /\ ys' = st.ys
           /\ t0' = st.t0
           /\ IF st.stopped
              THEN /\ stop_e' = TRUE
                   /\ btn_start' = "normal"
                   /\ btn_stop' = "disabled"
              ELSE UNCHANGED <<stop_e, btn_start, btn_stop>>
    /\ UNCHANGED <<logRest, reads, presses, trig_e, worker, orphans, reader, cbo_port, var_trigger,
                   touched>>

NextLog ==
    \/ start
    \/ stop
    \/ clear
    \/ \E f \in LogFiles : open_file(f)
    \/ WorkerStep
    \/ OrphanStep
    \/ update_plot

SpecLog == InitLog /\ [][NextLog]_vars

\* C23: once the file thread of the last Open Log has returned, and neither
\* Stop nor Clear was pressed since, every line of the file has been put on
\* the queue.
C23_LogDelivered ==
    (worker.kind = "file" /\ ~is_alive(worker) /\ ~touched) => worker.pos = Len(worker.log)

\* C32: the number of decoded bits equals the bit index, in the decoder a
\* feed call leaves, at the top of every iteration of its bit loop, and in
\* the decoder reset() leaves.
C32_BitCount ==
    /\ Len(decoder.bit_data) = decoder.current_bit_index
    /\ \A k \in 1..Len(bitlog) : Len(bitlog[k].bit_data) = bitlog[k].current_bit_index
    /\ Len(reset.bit_data) = reset.current_bit_index

\* A feed call has pushed several bits in one run of the bit loop, the last
\* of them beyond bit index 40.
C32_Witness ==
    /\ Len(bitlog) > 2
    /\ decoder.current_bit_index > 40
    /\ Len(decoder.bit_data) > 40

\* C33: xs and ys have the same length after any sequence of lines (a line
\* _parse_line rejects leaves both alone, an accepted one adds a point to
\* each).
C33_PointsPaired == Len(xs) = Len(ys)

\* C31: once _redraw_plot has run on the decoded bits, the positions the
\* display loop marked STUFF are the positions _destuff stepped over, and
\* actual_idx after the last bit is the length of the destuffed sequence.
C31_MarksMatchDrops ==
    (phase = "drawn" \/ reveal # <<>>) =>
        /\ marks.stuff = destuff_dropped(wire)
        /\ marks.actual_idx = Len(clean)

====
